---- MODULE Spec2Model ----
(***************************************************************************)
(* A model of the genetic-circuit core of the bacteria game:               *)
(*   - the Part classes, Circuit and Bacteria of biology.py,               *)
(*   - the selection panels of customisation.py.                           *)
(*                                                                         *)
(* Python objects are records carrying a "cls" field; a raised exception   *)
(* is a record carrying an "error" field, and it propagates through the    *)
(* operators the way it propagates through the calls.  Expression levels   *)
(* are the floats 0.3, 0.7 and 1.0 in the code; the model holds them in    *)
(* tenths (3, 7, 10) so that they are integers.                            *)
(***************************************************************************)
EXTENDS Integers, Sequences, FiniteSets, TLC

VARIABLES
    promoter,             \* the Promoter last constructed, or None
    cds,                  \* the CodingSequence last constructed, or None
    call,                 \* the constructor or method last called, with its arguments
    ret,                  \* what that call returned or raised
    circuit,              \* the Circuit last built by a panel, or None
    record,               \* a circuit record (a dict), or None
    record_of,            \* the Circuit `record` was serialised from, or None
    loaded,               \* what Circuit.from_dict(record) returned or raised, None before the call
    bacteria,             \* the Bacteria object
    op,                   \* the operation last performed on the Bacteria
    prev_op,              \* the operation performed before that one
    promoter_assignments, \* the dict shared by the three gameplay panels
    selectors,            \* the selected_index of every ArrowSelector
    state_changed,        \* what the panels' handle_event calls reported for the last event
    current_state,        \* CUSTOMISATION, GAME, GAMEOVER or THANKYOU
    ticks,                \* what pygame.time.get_ticks() returns, in milliseconds
    play_button,          \* the Play button of the customisation screen
    circuits,             \* the dict of the six circuits the main loop keeps
    bacteria_preview,     \* the BacteriaPreviewSprite of the customisation screen
    circuit_stats,        \* what the CircuitStatsDisplay shows
    glow_intensity,       \* what get_glow_intensity() returned to the last draw of the preview
    confirmation_message, \* a ConfirmationMessage
    player,               \* the Player of the game being played, or None
    game_start_time,      \* get_ticks() when Play was clicked
    final_score,          \* the score taken at game over
    text_input,           \* the TextInput of the game-over screen, or None
    thankyou_timer,       \* get_ticks() when the name was submitted
    data_json,            \* the content of the file data.json, None when there is no file
    preview_sprite,       \* a BacteriaPreviewSprite made for an image, or None
    gallery_sprite,       \* a SmallBacteriaSprite of the plate display, or None
    render_log,           \* what is remembered of the renders of `preview_sprite`
    geometry_sprite,      \* a sprite rendered with a Bacteria set by hand, or None
    plate,                \* the plate-display process: its sprites and last_modified
    current_stage,        \* the stage of the game, 0 before the first game
    powerup_timer,        \* the interval of the powerup_event timer, 0 when it is not set
    powerup_sprites,      \* how many Powerups of each type are in the group
    spawned               \* what the last obstacle_event or powerup_event made, and the Powerups made so far

partsVars  == <<promoter, cds, call, ret>>
serialVars == <<record, record_of, loaded>>
bactVars   == <<bacteria, op, prev_op>>
panelVars  == <<promoter_assignments, selectors, state_changed>>
screenVars == <<circuits, bacteria_preview, circuit_stats, glow_intensity,
                confirmation_message>>
gameVars   == <<player, game_start_time, final_score, text_input, thankyou_timer, data_json>>
renderVars == <<preview_sprite, gallery_sprite, render_log>>
otherVars  == <<geometry_sprite, plate>>
stageVars  == <<current_stage, powerup_timer, powerup_sprites, spawned>>
appVars    == <<current_state, ticks, play_button, screenVars, gameVars, renderVars,
                otherVars, stageVars>>
vars == <<promoter, cds, call, ret, circuit, record, record_of, loaded,
          bacteria, op, prev_op, promoter_assignments, selectors, state_changed,
          current_state, ticks, play_button, circuits, bacteria_preview, circuit_stats,
          glow_intensity, confirmation_message, player, game_start_time, final_score, text_input, thankyou_timer, data_json,
          preview_sprite, gallery_sprite, render_log, geometry_sprite, plate,
          current_stage, powerup_timer, powerup_sprites, spawned>>

-----------------------------------------------------------------------------
(* Values *)

None == [cls |-> "None"]

ValueError(msg) == [error |-> "ValueError", msg |-> msg]

KeyError(key) == [error |-> "KeyError", msg |-> key]

IsError(x) == "error" \in DOMAIN x

IsA(x, cls) == "cls" \in DOMAIN x /\ x.cls = cls

Strengths == {"weak", "medium", "strong"}

Shapes == {"spherical", "rod"}

Surfaces == {"smooth", "rough", "spiky"}

VisualTypes == {"shape", "surface", "color"}

GameplayTypes == {"life", "speed", "small"}

\* ColorCDS.VALID_COLORS
VALID_COLORS ==
    [cyan |-> "#00FFFF", green |-> "#00FF00", yellow |-> "#FFFF00",
     red |-> "#FF0000", blue |-> "#0000FF"]

ColorNames == DOMAIN VALID_COLORS

-----------------------------------------------------------------------------
(* Parts *)

\* Promoter.__init__
Promoter(strength) ==
    IF strength \notin {"weak", "medium", "strong"}
    THEN ValueError("Invalid promoter strength")
    ELSE [cls |-> "Promoter", strength |-> strength]

\* The table with its weakest entry below the documented range.
multipliersLow == [weak |-> 2, medium |-> 7, strong |-> 10]

\* The table of Promoter.get_expression_level, in tenths.
multipliers == [weak |-> 3, medium |-> 7, strong |-> 10]

\* Promoter.get_expression_level
PromoterExpressionLevel(p) == multipliers[p.strength]

RBS == [cls |-> "RBS", efficiency |-> "standard"]

Terminator == [cls |-> "Terminator", terminator_type |-> "standard"]

\* ShapeCDS.__init__ without its validation.
ShapeCDSUnchecked(shape) == [cls |-> "ShapeCDS", category |-> "shape", shape |-> shape]

\* ShapeCDS.__init__
ShapeCDS(shape) ==
    IF shape \notin {"spherical", "rod"}
    THEN ValueError("Invalid shape")
    ELSE [cls |-> "ShapeCDS", category |-> "shape", shape |-> shape]

\* SurfaceCDS.__init__
SurfaceCDS(surface) ==
    IF surface \notin {"smooth", "rough", "spiky"}
    THEN ValueError("Invalid surface")
    ELSE [cls |-> "SurfaceCDS", category |-> "surface", surface |-> surface]

\* ColorCDS.__init__
ColorCDS(color_name) ==
    IF color_name \notin DOMAIN VALID_COLORS
    THEN ValueError("Invalid color")
    ELSE [cls |-> "ColorCDS", category |-> "color", color_name |-> color_name,
          color_hex |-> VALID_COLORS[color_name]]

\* The gameplay coding sequences that customisation.py imports: they carry a
\* category and no trait value.
LifeCDS == [cls |-> "LifeCDS", category |-> "life"]

SpeedCDS == [cls |-> "SpeedCDS", category |-> "speed"]

SmallCDS == [cls |-> "SmallCDS", category |-> "small"]

\* The constructor of the class named cls, applied to value.
NewCDSOf(cls, value) ==
    CASE cls = "ShapeCDS"   -> ShapeCDS(value)
      [] cls = "SurfaceCDS" -> SurfaceCDS(value)
      [] cls = "ColorCDS"   -> ColorCDS(value)
      [] cls = "LifeCDS"    -> LifeCDS
      [] cls = "SpeedCDS"   -> SpeedCDS
      [] cls = "SmallCDS"   -> SmallCDS

-----------------------------------------------------------------------------
(* Circuit *)

\* Circuit.__init__ without the category check.
CircuitNoCategoryCheck(p, c, circuit_type) ==
    IF circuit_type \notin {"shape", "surface", "color"}
    THEN ValueError("Invalid circuit type")
    ELSE [cls |-> "Circuit", promoter |-> p, rbs |-> RBS, cds |-> c,
          terminator |-> Terminator, circuit_type |-> circuit_type]

\* Circuit.__init__
Circuit(p, c, circuit_type) ==
    IF circuit_type \notin {"shape", "surface", "color"}
    THEN ValueError("Invalid circuit type")
    ELSE IF c.category # circuit_type
    THEN ValueError("CDS category must match circuit type")
    ELSE [cls |-> "Circuit", promoter |-> p, rbs |-> RBS, cds |-> c,
          terminator |-> Terminator, circuit_type |-> circuit_type]

\* Circuit.get_expression_level
GetExpressionLevel(c) == PromoterExpressionLevel(c.promoter)

\* Circuit.to_dict that writes the promoter strength of a medium promoter
\* whatever the promoter is.
to_dict_fixed_strength(c) ==
    LET result == [promoter_strength |-> "medium", circuit_type |-> c.circuit_type]
    IN  IF c.circuit_type = "shape" /\ IsA(c.cds, "ShapeCDS")
        THEN result @@ ("shape" :> c.cds.shape)
        ELSE IF c.circuit_type = "surface" /\ IsA(c.cds, "SurfaceCDS")
        THEN result @@ ("surface" :> c.cds.surface)
        ELSE IF c.circuit_type = "color" /\ IsA(c.cds, "ColorCDS")
        THEN result @@ ("color_name" :> c.cds.color_name)
        ELSE result

\* Circuit.to_dict: the flat dict, a function from its keys to their values.
to_dict(c) ==
    LET result == [promoter_strength |-> c.promoter.strength,
                   circuit_type |-> c.circuit_type]
    IN  IF c.circuit_type = "shape" /\ IsA(c.cds, "ShapeCDS")
        THEN result @@ ("shape" :> c.cds.shape)
        ELSE IF c.circuit_type = "surface" /\ IsA(c.cds, "SurfaceCDS")
        THEN result @@ ("surface" :> c.cds.surface)
        ELSE IF c.circuit_type = "color" /\ IsA(c.cds, "ColorCDS")
        THEN result @@ ("color_name" :> c.cds.color_name)
        ELSE result

\* Circuit.from_dict that reads the shape with a default, data.get("shape",
\* "rod"), instead of data["shape"].
from_dict_default_shape(data) ==
    IF "promoter_strength" \notin DOMAIN data THEN KeyError("promoter_strength")
    ELSE LET p == Promoter(data["promoter_strength"])
         IN  IF IsError(p) THEN p
             ELSE IF "circuit_type" \notin DOMAIN data THEN KeyError("circuit_type")
             ELSE LET circuit_type == data["circuit_type"]
                      c == CASE circuit_type = "shape" ->
                                  IF "shape" \notin DOMAIN data THEN ShapeCDS("rod")
                                  ELSE ShapeCDS(data["shape"])
                             [] circuit_type = "surface" ->
                                  IF "surface" \notin DOMAIN data THEN KeyError("surface")
                                  ELSE SurfaceCDS(data["surface"])
                             [] circuit_type = "color" ->
                                  IF "color_name" \notin DOMAIN data
                                  THEN KeyError("color_name")
                                  ELSE ColorCDS(data["color_name"])
                             [] OTHER -> ValueError("Unknown circuit type")
                  IN  IF IsError(c) THEN c ELSE Circuit(p, c, circuit_type)

\* Circuit.from_dict: data[key] raises KeyError for a missing key, and an
\* exception of a constructor propagates.
from_dict(data) ==
    IF "promoter_strength" \notin DOMAIN data THEN KeyError("promoter_strength")
    ELSE LET p == Promoter(data["promoter_strength"])
         IN  IF IsError(p) THEN p
             ELSE IF "circuit_type" \notin DOMAIN data THEN KeyError("circuit_type")
             ELSE LET circuit_type == data["circuit_type"]
                      c == CASE circuit_type = "shape" ->
                                  IF "shape" \notin DOMAIN data THEN KeyError("shape")
                                  ELSE ShapeCDS(data["shape"])
                             [] circuit_type = "surface" ->
                                  IF "surface" \notin DOMAIN data THEN KeyError("surface")
                                  ELSE SurfaceCDS(data["surface"])
                             [] circuit_type = "color" ->
                                  IF "color_name" \notin DOMAIN data
                                  THEN KeyError("color_name")
                                  ELSE ColorCDS(data["color_name"])
                             [] OTHER -> ValueError("Unknown circuit type")
                  IN  IF IsError(c) THEN c ELSE Circuit(p, c, circuit_type)

-----------------------------------------------------------------------------
(* Bacteria *)

\* Bacteria.__init__ with the default colour held by name, not by hex.
BacteriaInitNamedColor ==
    [shape |-> "rod", shape_expression |-> 7,
     surface |-> "smooth", surface_expression |-> 7,
     color |-> "green", color_expression |-> 10]

\* Bacteria.__init__: the state of a fresh Bacteria.
BacteriaInit ==
    [shape |-> "rod", shape_expression |-> 7,
     surface |-> "smooth", surface_expression |-> 7,
     color |-> "#00FF00", color_expression |-> 10]

\* Bacteria.update_shape
update_shape(b, shape, expression_level) ==
    [b EXCEPT !.shape = shape, !.shape_expression = expression_level]

\* Bacteria.update_surface that writes the level into the shape's slot.
update_surface_wrong_slot(b, surface, expression_level) ==
    [b EXCEPT !.surface = surface, !.shape_expression = expression_level]

\* Bacteria.update_surface
update_surface(b, surface, expression_level) ==
    [b EXCEPT !.surface = surface, !.surface_expression = expression_level]

\* Bacteria.update_color
update_color(b, color_hex, expression_level) ==
    [b EXCEPT !.color = color_hex, !.color_expression = expression_level]

\* The apply_effect of the three coding sequences that have one.
apply_effect(c, b, expression_level) ==
    CASE c.cls = "ShapeCDS"   -> update_shape(b, c.shape, expression_level)
      [] c.cls = "SurfaceCDS" -> update_surface(b, c.surface, expression_level)
      [] c.cls = "ColorCDS"   -> update_color(b, c.color_hex, expression_level)

\* Circuit.express: the Bacteria after the call.
express(c, b) == apply_effect(c.cds, b, GetExpressionLevel(c))

\* Bacteria.reset that keeps the state it finds.
reset_keep(b) == b

\* Bacteria.reset: runs __init__ again on the same object.
reset(b) == BacteriaInit

\* Bacteria.get_visual_properties
get_visual_properties(b) ==
    [shape   |-> [type |-> b.shape, intensity |-> b.shape_expression],
     surface |-> [type |-> b.surface, intensity |-> b.surface_expression],
     color   |-> [hex |-> b.color, intensity |-> b.color_expression]]

-----------------------------------------------------------------------------
(* The selection panels of the customisation screen *)

\* The options of a panel's promoter selector (CircuitPanel.__init__).
PromoterOptions == <<"weak", "medium", "strong">>

\* The options of a panel's CDS selector (CircuitPanel._create_cds_selector).
CdsOptions(circuit_type) ==
    CASE circuit_type = "shape"   -> <<"rod", "spherical">>
      [] circuit_type = "surface" -> <<"smooth", "rough", "spiky">>
      [] circuit_type = "color"   -> <<"cyan", "green", "yellow", "red", "blue">>

\* The selected_index each panel's two selectors start with.
SelectorsInit ==
    [shape   |-> [promoter |-> 1, cds |-> 0],
     surface |-> [promoter |-> 1, cds |-> 0],
     color   |-> [promoter |-> 1, cds |-> 1]]

\* ArrowSelector.get_selected: selected_index counts from 0.
get_selected(options, selected_index) == options[selected_index + 1]

\* The place of a click.  The rectangles of the arrows and of the radio
\* buttons are pairwise disjoint, so a position lies in at most one of them:
\* the model names the rectangle, and Elsewhere is a position in none.
ArrowRect(panel, selector, side) == [panel |-> panel, part |-> selector, side |-> side]

ButtonRect(panel, strength) == [panel |-> panel, part |-> "button", side |-> strength]

Elsewhere == [panel |-> "none", part |-> "none", side |-> "none"]

Rects ==
    {ArrowRect(t, s, d) : t \in VisualTypes, s \in {"promoter", "cds"}, d \in {"left", "right"}}
    \cup {ButtonRect(t, s) : t \in GameplayTypes, s \in Strengths}
    \cup {Elsewhere}

\* The events of pygame.event.get() that the panels tell apart.
Events ==
    {[type |-> "MOUSEBUTTONDOWN", pos |-> r] : r \in Rects}
    \cup {[type |-> "MOUSEMOTION", pos |-> r] : r \in {Elsewhere, ButtonRect("life", "strong")}}

\* Rect.collidepoint
collidepoint(rect, pos) == rect = pos

\* ArrowSelector.handle_event of the selector `selector` of panel `panel`
\* with n options: the new selected_index and the value returned.
ArrowSelectorHandleEvent(panel, selector, n, selected_index, e) ==
    IF e.type = "MOUSEBUTTONDOWN"
    THEN IF collidepoint(ArrowRect(panel, selector, "left"), e.pos)
         THEN IF selected_index > 0
              THEN [selected_index |-> selected_index - 1, changed |-> TRUE]
              ELSE [selected_index |-> selected_index, changed |-> FALSE]
         ELSE IF collidepoint(ArrowRect(panel, selector, "right"), e.pos)
         THEN IF selected_index < n - 1
              THEN [selected_index |-> selected_index + 1, changed |-> TRUE]
              ELSE [selected_index |-> selected_index, changed |-> FALSE]
         ELSE [selected_index |-> selected_index, changed |-> FALSE]
    ELSE [selected_index |-> selected_index, changed |-> FALSE]

\* CircuitPanel.handle_event: both selectors see the event.
CircuitPanelHandleEvent(panel, sel, e) ==
    LET p == ArrowSelectorHandleEvent(panel, "promoter", Len(PromoterOptions), sel.promoter, e)
        c == ArrowSelectorHandleEvent(panel, "cds", Len(CdsOptions(panel)), sel.cds, e)
    IN  [sel |-> [promoter |-> p.selected_index, cds |-> c.selected_index],
         changed |-> p.changed \/ c.changed]

\* CircuitPanel.build_circuit
build_circuit(circuit_type, promoter_strength, cds_value) ==
    LET p == Promoter(promoter_strength)
    IN  IF IsError(p) THEN p
        ELSE LET c == CASE circuit_type = "shape"   -> ShapeCDS(cds_value)
                        [] circuit_type = "surface" -> SurfaceCDS(cds_value)
                        [] circuit_type = "color"   -> ColorCDS(cds_value)
                        [] OTHER -> ValueError("Unknown circuit type")
             IN  IF IsError(c) THEN c ELSE Circuit(p, c, circuit_type)

\* The dict create_customisation shares among the three gameplay panels.
PromoterAssignmentsInit == [weak |-> "life", medium |-> "speed", strong |-> "small"]

\* get_current_promoter that finds no entry and falls back.
get_current_promoter_fallback(assignments, circuit_type) == "medium"

\* GameplayCircuitPanel.get_current_promoter: the dict is scanned in the
\* order of its keys, weak, medium, strong.
get_current_promoter(assignments, circuit_type) ==
    IF assignments["weak"] = circuit_type THEN "weak"
    ELSE IF assignments["medium"] = circuit_type THEN "medium"
    ELSE IF assignments["strong"] = circuit_type THEN "strong"
    ELSE "medium"

\* The swap of handle_event with its second assignment left out.
SwapHalf(assignments, circuit_type, strength, current_promoter) ==
    [assignments EXCEPT ![strength] = circuit_type]

\* The swap of handle_event: two assignments, the second made in the dict the
\* first has changed.
Swap(assignments, circuit_type, strength, current_promoter) ==
    LET circuit_with_target == assignments[strength]
        first == [assignments EXCEPT ![strength] = circuit_type]
    IN  [first EXCEPT ![current_promoter] = circuit_with_target]

\* The button of panel circuit_type that holds the position, scanning
\* self.buttons in its order; "none" when no button holds it.
ButtonAt(circuit_type, pos) ==
    IF collidepoint(ButtonRect(circuit_type, "weak"), pos) THEN "weak"
    ELSE IF collidepoint(ButtonRect(circuit_type, "medium"), pos) THEN "medium"
    ELSE IF collidepoint(ButtonRect(circuit_type, "strong"), pos) THEN "strong"
    ELSE "none"

\* GameplayCircuitPanel.handle_event: the dict after the call and the value
\* returned.
GameplayHandleEvent(assignments, circuit_type, e) ==
    IF e.type = "MOUSEBUTTONDOWN"
    THEN LET current_promoter == get_current_promoter(assignments, circuit_type)
             strength == ButtonAt(circuit_type, e.pos)
         IN  IF strength = "none"
             THEN [assignments |-> assignments, changed |-> FALSE]
             ELSE IF strength = current_promoter
             THEN [assignments |-> assignments, changed |-> FALSE]
             ELSE [assignments |-> Swap(assignments, circuit_type, strength, current_promoter),
                   changed |-> TRUE]
    ELSE [assignments |-> assignments, changed |-> FALSE]

\* GameplayCircuitPanel.build_circuit
gameplay_build_circuit(assignments, circuit_type) ==
    LET p == Promoter(get_current_promoter(assignments, circuit_type))
    IN  IF IsError(p) THEN p
        ELSE LET c == CASE circuit_type = "life"  -> LifeCDS
                        [] circuit_type = "speed" -> SpeedCDS
                        [] circuit_type = "small" -> SmallCDS
                        [] OTHER -> ValueError("Unknown gameplay circuit type")
             IN  IF IsError(c) THEN c ELSE Circuit(p, c, circuit_type)

-----------------------------------------------------------------------------
(* The two renderers: BacteriaPreviewSprite of customisation.py and         *)
(* SmallBacteriaSprite of platedisplay.py.  A pygame Surface is the         *)
(* sequence of the shapes drawn on it since it was last cleared; the dots   *)
(* and spikes of one texture pass are one entry that holds what their       *)
(* positions are computed from.  The floats of the code are products of an  *)
(* integer and a decimal constant: int() of such a product is the integer   *)
(* quotient below for every size under 400 but the ones named.              *)

\* pygame.Rect(x, y, width, height)
Rect(x, y, width, height) == [x |-> x, y |-> y, width |-> width, height |-> height]

\* Rect.centerx and Rect.centery
centerx(rect) == rect.x + rect.width \div 2

centery(rect) == rect.y + rect.height \div 2

\* abs()
abs(n) == IF n < 0 THEN 0 - n ELSE n

\* min()
min(a, b) == IF a < b THEN a ELSE b

\* _hex_to_rgb of both sprites, on the hex strings a Bacteria can hold.
hex_to_rgb(hex_color) ==
    CASE hex_color = "#00FFFF" -> <<0, 255, 255>>
      [] hex_color = "#00FF00" -> <<0, 255, 0>>
      [] hex_color = "#FFFF00" -> <<255, 255, 0>>
      [] hex_color = "#FF0000" -> <<255, 0, 0>>
      [] hex_color = "#0000FF" -> <<0, 0, 255>>

\* _modulate_color of both sprites: int(c * expression) for each channel.
modulate_color(color, expression) ==
    [i \in 1..3 |-> (color[i] * expression) \div 10]

\* int(self.size * 0.35): the float product falls under the integer at
\* three sizes.
base_radius_of(size) ==
    (size * 35) \div 100 - (IF size \in {180, 340, 360} THEN 1 ELSE 0)

\* int(base_radius * (0.7 + 0.3 * expression)): the float product falls
\* under the integer at base radius 100.
radius_of(base_radius, expression) ==
    (base_radius * (70 + 3 * expression)) \div 100
        - (IF base_radius = 100 /\ expression \in {3, 7} THEN 1 ELSE 0)

\* int(self.size * 0.25)
rod_width_of(size) == (size * 25) \div 100

\* int(width * (1.5 + 1.5 * expression))
rod_height_of(width, expression) == (width * (150 + 15 * expression)) \div 100

\* surface.fill((0, 0, 0, 0))
fill(sprite) == [sprite EXCEPT !.surface = <<>>]

\* BacteriaPreviewSprite._draw_sphere
preview_draw_sphere(sprite, color, expression) ==
    LET c == sprite.size \div 2
        radius == radius_of(base_radius_of(sprite.size), expression)
        body == [draw |-> "circle", color |-> color, center |-> <<c, c>>,
                 radius |-> radius]
        highlight == [draw |-> "circle",
                      color |-> [i \in 1..3 |-> min(255, (color[i] * 13) \div 10)],
                      center |-> <<c - radius \div 3, c - radius \div 3>>,
                      radius |-> (radius * 3) \div 10]
    IN  [sprite EXCEPT
            !.surface = IF expression > 5 THEN @ \o <<body, highlight>>
                                          ELSE Append(@, body),
            !.shape_rect = Rect(c - radius, c - radius, radius * 2, radius * 2)]

\* BacteriaPreviewSprite._draw_rod that leaves self.shape_rect as it finds it.
preview_draw_rod_stale_rect(sprite, color, expression) ==
    LET c == sprite.size \div 2
        width == rod_width_of(sprite.size)
        height == rod_height_of(width, expression)
        rect == Rect(c - width \div 2, c - height \div 2, width, height)
    IN  [sprite EXCEPT
            !.surface = Append(@, [draw |-> "rect", color |-> color, rect |-> rect,
                                   border_radius |-> width \div 2])]

\* BacteriaPreviewSprite._draw_rod
preview_draw_rod(sprite, color, expression) ==
    LET c == sprite.size \div 2
        width == rod_width_of(sprite.size)
        height == rod_height_of(width, expression)
        rect == Rect(c - width \div 2, c - height \div 2, width, height)
        body == [draw |-> "rect", color |-> color, rect |-> rect,
                 border_radius |-> width \div 2]
        highlight == [draw |-> "ellipse",
                      color |-> [i \in 1..3 |-> min(255, (color[i] * 12) \div 10)],
                      rect |-> Rect(rect.x + width \div 4, rect.y + height \div 8,
                                    width \div 3, height \div 4)]
    IN  [sprite EXCEPT
            !.surface = IF expression > 5 THEN @ \o <<body, highlight>>
                                          ELSE Append(@, body),
            !.shape_rect = rect]

\* The test of BacteriaPreviewSprite._draw_surface_texture made with <=.
preview_is_circular_inclusive(rect) == abs(rect.width - rect.height) <= 10

\* is_circular of BacteriaPreviewSprite._draw_surface_texture
preview_is_circular(rect) == abs(rect.width - rect.height) < 10

\* The markers of one texture pass around a circle: marker i of n stands at
\* angle (i / n) * 2 * pi on the circle of that centre and radius.
CircleMarkers(draw, n, rect, extent) ==
    [draw |-> draw, layout |-> "circular", n |-> n,
     center |-> <<centerx(rect), centery(rect)>>, radius |-> rect.width \div 2,
     extent |-> extent]

\* The segment of the rod's perimeter marker i of n is drawn on, with the cap
\* taken from the whole width.
rod_segment_full_width(i, n, rect) ==
    LET half_width == rect.width
        straight_length == rect.height - rect.width
        distance == i * (226 * straight_length + 710 * half_width)
    IN  IF distance < n * 113 * straight_length THEN "left"
        ELSE IF distance < n * (113 * straight_length + 355 * half_width) THEN "top"
        ELSE IF distance < n * (226 * straight_length + 355 * half_width) THEN "right"
        ELSE "bottom"

\* The if/elif chain on distance = (i / num) * total_perimeter: the segment
\* marker i of n is drawn on.  math.pi is held as 355/113 and both sides of
\* every comparison are multiplied by 113 * n: no quotient of integers as
\* small as these lies between pi and 355/113, so each comparison comes
\* out as it does in the code.
rod_segment(i, n, rect) ==
    LET half_width == rect.width \div 2
        straight_length == rect.height - rect.width
        distance == i * (226 * straight_length + 710 * half_width)
    IN  IF distance < n * 113 * straight_length THEN "left"
        ELSE IF distance < n * (113 * straight_length + 355 * half_width) THEN "top"
        ELSE IF distance < n * (226 * straight_length + 355 * half_width) THEN "right"
        ELSE "bottom"

\* The markers of one texture pass along the perimeter of a rod: marker i of
\* n stands at distance (i / n) * total_perimeter along the left side, the
\* top cap, the right side and the bottom cap of the rect.
RodMarkers(draw, n, rect, extent) ==
    [draw |-> draw, layout |-> "rod", n |-> n, rect |-> rect,
     half_width |-> rect.width \div 2,
     straight_length |-> rect.height - rect.width,
     segment |-> [i \in 0..(n - 1) |-> rod_segment(i, n, rect)],
     extent |-> extent]

\* BacteriaPreviewSprite._draw_surface_texture: extent is the radius of a dot
\* or the length of a spike.
preview_draw_surface_texture(sprite, surface_type, expression) ==
    IF surface_type = "smooth" \/ sprite.shape_rect = None
    THEN sprite
    ELSE LET rect == sprite.shape_rect
             is_circular == preview_is_circular(rect)
             dot_radius == (20 + 2 * expression) \div 10
             spike_length == (100 + 20 * expression) \div 10
         IN  IF surface_type = "rough"
             THEN IF is_circular
                  THEN [sprite EXCEPT !.surface = Append(@,
                            CircleMarkers("dots", (80 + 12 * expression) \div 10,
                                          rect, dot_radius))]
                  ELSE [sprite EXCEPT !.surface = Append(@,
                            RodMarkers("dots", (150 + 25 * expression) \div 10,
                                       rect, dot_radius))]
             ELSE IF surface_type = "spiky"
             THEN IF is_circular
                  THEN [sprite EXCEPT !.surface = Append(@,
                            CircleMarkers("spikes", 10, rect, spike_length))]
                  ELSE [sprite EXCEPT !.surface = Append(@,
                            RodMarkers("spikes", 16, rect, spike_length))]
             ELSE sprite

\* BacteriaPreviewSprite._render
preview_render(sprite) ==
    LET visual == get_visual_properties(sprite.bacteria)
        final_color == modulate_color(hex_to_rgb(visual.color.hex),
                                      visual.color.intensity)
        cleared == fill(sprite)
        drawn == IF visual.shape.type = "spherical"
                 THEN preview_draw_sphere(cleared, final_color, visual.shape.intensity)
                 ELSE preview_draw_rod(cleared, final_color, visual.shape.intensity)
    IN  preview_draw_surface_texture(drawn, visual.surface.type,
                                     visual.surface.intensity)

\* SmallBacteriaSprite._draw_sphere
small_draw_sphere(sprite, color, expression) ==
    LET c == sprite.size \div 2
        radius == radius_of(base_radius_of(sprite.size), expression)
    IN  [sprite EXCEPT
            !.surface = Append(@, [draw |-> "circle", color |-> color,
                                   center |-> <<c, c>>, radius |-> radius]),
            !.shape_rect = Rect(c - radius, c - radius, radius * 2, radius * 2)]

\* SmallBacteriaSprite._draw_rod
small_draw_rod(sprite, color, expression) ==
    LET c == sprite.size \div 2
        width == rod_width_of(sprite.size)
        height == rod_height_of(width, expression)
        rect == Rect(c - width \div 2, c - height \div 2, width, height)
    IN  [sprite EXCEPT
            !.surface = Append(@, [draw |-> "rect", color |-> color, rect |-> rect,
                                   border_radius |-> width \div 2]),
            !.shape_rect = rect]

\* The test of SmallBacteriaSprite._draw_surface_texture made with <=.
small_is_circular_inclusive(rect) == abs(rect.width - rect.height) <= 5

\* is_circular of SmallBacteriaSprite._draw_surface_texture
small_is_circular(rect) == abs(rect.width - rect.height) < 5

\* SmallBacteriaSprite._draw_surface_texture: the counts, the dot radius and
\* the spike length are fixed.
small_draw_surface_texture(sprite, surface_type, surface_intensity) ==
    IF surface_type = "smooth" \/ sprite.shape_rect = None
    THEN sprite
    ELSE LET rect == sprite.shape_rect
             is_circular == small_is_circular(rect)
         IN  IF surface_type = "rough"
             THEN IF is_circular
                  THEN [sprite EXCEPT !.surface = Append(@,
                            CircleMarkers("dots", 10, rect, 2))]
                  ELSE [sprite EXCEPT !.surface = Append(@,
                            RodMarkers("dots", 14, rect, 2))]
             ELSE IF surface_type = "spiky"
             THEN IF is_circular
                  THEN [sprite EXCEPT !.surface = Append(@,
                            CircleMarkers("spikes", 10, rect, 8))]
                  ELSE [sprite EXCEPT !.surface = Append(@,
                            RodMarkers("spikes", 12, rect, 8))]
             ELSE sprite

\* SmallBacteriaSprite._render
small_render(sprite) ==
    LET visual == get_visual_properties(sprite.bacteria)
        final_color == modulate_color(hex_to_rgb(visual.color.hex),
                                      visual.color.intensity)
        cleared == fill(sprite)
        drawn == IF visual.shape.type = "spherical"
                 THEN small_draw_sphere(cleared, final_color, visual.shape.intensity)
                 ELSE small_draw_rod(cleared, final_color, visual.shape.intensity)
    IN  small_draw_surface_texture(drawn, visual.surface.type,
                                   visual.surface.intensity)

\* SmallBacteriaSprite.__init__: circuits holds the three visual circuits.
SmallBacteriaSprite(cs) ==
    LET b1 == express(cs["shape"], BacteriaInit)
        b2 == express(cs["surface"], b1)
        b3 == express(cs["color"], b2)
    IN  small_render([cls |-> "SmallBacteriaSprite", size |-> 70, bacteria |-> b3,
                      surface |-> <<>>, shape_rect |-> None])

\* BacteriaPreviewSprite.__init__: pygame.Surface((size, size)) is clear.
BacteriaPreviewSprite(size) ==
    [cls |-> "BacteriaPreviewSprite", base_size |-> size, size |-> size,
     size_multiplier |-> 10, bacteria |-> BacteriaInit, surface |-> <<>>,
     shape_rect |-> None, glow_active |-> FALSE, glow_timer |-> 0]

-----------------------------------------------------------------------------
(* The objects of the main loop of customisation.py *)

\* The game states.
CUSTOMISATION == 0

GAME == 1

GAMEOVER == 2

THANKYOU == 3

\* The Circuit constructor of the biology module that customisation.py
\* imports.  That module is not among the sources (the biology.py that is has
\* no gameplay classes): its constructor takes the six circuit types.
GameplayCircuit(p, c, circuit_type) ==
    IF circuit_type \notin VisualTypes \cup GameplayTypes
    THEN ValueError("Invalid circuit type")
    ELSE IF c.category # circuit_type
    THEN ValueError("CDS category must match circuit type")
    ELSE [cls |-> "Circuit", promoter |-> p, rbs |-> RBS, cds |-> c,
          terminator |-> Terminator, circuit_type |-> circuit_type]

\* LifeCDS.get_lives_from_expression, of the same module: the number of lives
\* at an expression level held in tenths.
get_lives_from_expression(expression) ==
    CASE expression = 3  -> 1
      [] expression = 7  -> 2
      [] expression = 10 -> 3

\* SpeedCDS.get_speed_multiplier, of the same module: the multiplier, in
\* tenths, at an expression level held in tenths.
get_speed_multiplier(expression) ==
    CASE expression = 3  -> 7
      [] expression = 7  -> 10
      [] expression = 10 -> 13

\* SmallCDS.get_size_multiplier, of the same module, in tenths.
get_size_multiplier(expression) ==
    CASE expression = 3  -> 13
      [] expression = 7  -> 10
      [] expression = 10 -> 7

\* The strength_map dict of CircuitStatsDisplay.update, of
\* BacteriaPreviewSprite.update and of Player.__init__, in tenths.
strength_map == [weak |-> 3, medium |-> 7, strong |-> 10]

\* The tables of draw_scoreboard_table (scoreboard.py): lives as a number,
\* the two percentages as the strings it prints.
lives_map == [weak |-> 1, medium |-> 2, strong |-> 3]

speed_map == [weak |-> "70%", medium |-> "100%", strong |-> "130%"]

size_map == [weak |-> "130%", medium |-> "100%", strong |-> "70%"]

\* GameplayCircuitPanel.build_circuit as the running game calls it, with the
\* Circuit of the module it imports.
GameplayPanelBuild(assignments, circuit_type) ==
    LET p == Promoter(get_current_promoter(assignments, circuit_type))
    IN  IF IsError(p) THEN p
        ELSE LET c == CASE circuit_type = "life"  -> LifeCDS
                        [] circuit_type = "speed" -> SpeedCDS
                        [] circuit_type = "small" -> SmallCDS
                        [] OTHER -> ValueError("Unknown gameplay circuit type")
             IN  IF IsError(c) THEN c ELSE GameplayCircuit(p, c, circuit_type)

\* The build_circuit of a visual panel whose selectors stand at sel.
PanelBuild(circuit_type, sel) ==
    build_circuit(circuit_type,
                  get_selected(PromoterOptions, sel[circuit_type].promoter),
                  get_selected(CdsOptions(circuit_type), sel[circuit_type].cds))

\* The six build_circuit calls of create_customisation, at start and after
\* an event that changed a selection.
BuildCircuits(sel, assignments) ==
    [shape   |-> PanelBuild("shape", sel),
     surface |-> PanelBuild("surface", sel),
     color   |-> PanelBuild("color", sel),
     life    |-> GameplayPanelBuild(assignments, "life"),
     speed   |-> GameplayPanelBuild(assignments, "speed"),
     small   |-> GameplayPanelBuild(assignments, "small")]

\* BacteriaPreviewSprite.trigger_glow at tick now
trigger_glow(sprite, now) == [sprite EXCEPT !.glow_active = TRUE, !.glow_timer = now]

\* BacteriaPreviewSprite.update that does not express the color circuit.
BacteriaPreviewSpriteUpdateNoColor(sprite, cs, now) ==
    LET b1 == express(cs["shape"], reset(sprite.bacteria))
        b2 == express(cs["surface"], b1)
        resized == [sprite EXCEPT !.bacteria = b2, !.surface = <<>>]
    IN  trigger_glow(preview_render(resized), now)

\* BacteriaPreviewSprite.update at tick now: a new Surface of the new size is
\* made before the sprite is rendered.
BacteriaPreviewSpriteUpdate(sprite, cs, now) ==
    LET b1 == express(cs["shape"], reset(sprite.bacteria))
        b2 == express(cs["surface"], b1)
        b3 == express(cs["color"], b2)
        expression == strength_map[cs["small"].promoter.strength]
        size_multiplier == get_size_multiplier(expression)
        resized == [sprite EXCEPT !.bacteria = b3,
                                  !.size_multiplier = size_multiplier,
                                  !.size = (sprite.base_size * size_multiplier) \div 10,
                                  !.surface = <<>>]
    IN  trigger_glow(preview_render(resized), now)

\* The float math.sin(progress * math.pi) * self.glow_max_intensity at
\* progress = elapsed / 500, held by the elapsed time it is computed from; it
\* is 0.0 at elapsed 0.
Intensity(elapsed) == [sin_of |-> elapsed, glow_duration |-> 500]

\* BacteriaPreviewSprite.get_glow_intensity that lets the glow end at the
\* 500th millisecond.
get_glow_intensity_at_duration(sprite, now) ==
    IF ~sprite.glow_active
    THEN [sprite |-> sprite, returned |-> Intensity(0)]
    ELSE IF now - sprite.glow_timer >= 500
    THEN [sprite |-> [sprite EXCEPT !.glow_active = FALSE], returned |-> Intensity(0)]
    ELSE [sprite |-> sprite, returned |-> Intensity(now - sprite.glow_timer)]

\* BacteriaPreviewSprite.get_glow_intensity at tick now: the sprite after the
\* call and the value returned.
get_glow_intensity(sprite, now) ==
    IF ~sprite.glow_active
    THEN [sprite |-> sprite, returned |-> Intensity(0)]
    ELSE IF now - sprite.glow_timer > 500
    THEN [sprite |-> [sprite EXCEPT !.glow_active = FALSE], returned |-> Intensity(0)]
    ELSE [sprite |-> sprite, returned |-> Intensity(now - sprite.glow_timer)]

\* ConfirmationMessage.__init__
ConfirmationMessage ==
    [cls |-> "ConfirmationMessage", active |-> FALSE, timer |-> 0,
     duration |-> 2000, message |-> ""]

\* ConfirmationMessage.show at tick now
show(m, message, now) ==
    [m EXCEPT !.message = message, !.active = TRUE, !.timer = now]

\* ConfirmationMessage.update at tick now
ConfirmationMessageUpdate(m, now) ==
    IF m.active /\ now - m.timer > m.duration
    THEN [m EXCEPT !.active = FALSE]
    ELSE m

\* The formatted percentage f"{int(mult * 100)}%" of a multiplier in tenths.
Percent(mult) ==
    CASE mult = 7  -> "70%"
      [] mult = 10 -> "100%"
      [] mult = 13 -> "130%"

\* CircuitStatsDisplay.update that takes the size multiplier from the speed
\* calculator.
CircuitStatsDisplayUpdateSizeAsSpeed(cs) ==
    LET life_promoter == cs["life"].promoter.strength
        speed_promoter == cs["speed"].promoter.strength
        small_promoter == cs["small"].promoter.strength
        lives == get_lives_from_expression(strength_map[life_promoter])
        speed_mult == get_speed_multiplier(strength_map[speed_promoter])
        size_mult == get_speed_multiplier(strength_map[small_promoter])
    IN  [shape_info   |-> [promoter |-> cs["shape"].promoter.strength,
                           trait |-> cs["shape"].cds.shape],
         surface_info |-> [promoter |-> cs["surface"].promoter.strength,
                           trait |-> cs["surface"].cds.surface],
         color_info   |-> [promoter |-> cs["color"].promoter.strength,
                           trait |-> cs["color"].cds.color_name],
         heart_count  |-> IF lives > 3 THEN 3 ELSE IF lives < 1 THEN 1 ELSE lives,
         speed_bar    |-> speed_mult - 3,
         small_bar    |-> 16 - size_mult,
         life_info    |-> [promoter |-> life_promoter, lives |-> lives],
         speed_info   |-> [promoter |-> speed_promoter, speed |-> Percent(speed_mult)],
         small_info   |-> [promoter |-> small_promoter, size |-> Percent(size_mult)]]

\* CircuitStatsDisplay.update: what it shows of the six circuits.
CircuitStatsDisplayUpdate(cs) ==
    LET life_promoter == cs["life"].promoter.strength
        speed_promoter == cs["speed"].promoter.strength
        small_promoter == cs["small"].promoter.strength
        lives == get_lives_from_expression(strength_map[life_promoter])
        speed_mult == get_speed_multiplier(strength_map[speed_promoter])
        size_mult == get_size_multiplier(strength_map[small_promoter])
    IN  [shape_info   |-> [promoter |-> cs["shape"].promoter.strength,
                           trait |-> cs["shape"].cds.shape],
         surface_info |-> [promoter |-> cs["surface"].promoter.strength,
                           trait |-> cs["surface"].cds.surface],
         color_info   |-> [promoter |-> cs["color"].promoter.strength,
                           trait |-> cs["color"].cds.color_name],
         heart_count  |-> IF lives > 3 THEN 3 ELSE IF lives < 1 THEN 1 ELSE lives,
         speed_bar    |-> speed_mult - 3,
         small_bar    |-> 16 - size_mult,
         life_info    |-> [promoter |-> life_promoter, lives |-> lives],
         speed_info   |-> [promoter |-> speed_promoter, speed |-> Percent(speed_mult)],
         small_info   |-> [promoter |-> small_promoter, size |-> Percent(size_mult)]]

\* Player._generate_bacteria_image: a BacteriaPreviewSprite of the final size
\* is made and updated with the visual circuits and the small circuit; the
\* image is a copy of its surface.
generate_bacteria_image(cs, base_size, size_multiplier, now) ==
    LET final_size == (base_size * size_multiplier) \div 10
        preview == BacteriaPreviewSpriteUpdate(BacteriaPreviewSprite(final_size), cs, now)
    IN  [size |-> preview.size, surface |-> preview.surface]

\* The keys of Player.active_powerups.
PowerupTypes == {"speedup", "shrinkdown", "morelasers", "timefreeze"}

\* pygame.sprite.Group() for the Powerups: none of any type.
EmptyGroup == [t \in PowerupTypes |-> 0]

\* Nothing made yet by the event handlers of a game.
NoneSpawned ==
    [event |-> "none", made |-> "none", stage |-> 0, timefreeze |-> FALSE, powerups |-> 0]

\* Player.__init__ that takes the lives from the speed circuit's promoter.
PlayerLivesFromSpeed(cs, now) ==
    LET speed_expr == strength_map[cs["speed"].promoter.strength]
        small_expr == strength_map[cs["small"].promoter.strength]
        max_lives == get_lives_from_expression(speed_expr)
        speed_multiplier == get_speed_multiplier(speed_expr)
        size_multiplier == get_size_multiplier(small_expr)
    IN  [cls |-> "Player", circuits |-> cs, base_size |-> 80,
         max_lives |-> max_lives, lives |-> max_lives,
         speed_multiplier |-> speed_multiplier,
         size_multiplier |-> size_multiplier,
         size_multiplier_places |-> 1,
         image |-> generate_bacteria_image(cs, 80, size_multiplier, now),
         speed |-> 20 * speed_multiplier,
         cooldown_duration |-> 400,
         invincible |-> FALSE, invincible_time |-> 0,
         base_speed |-> 20 * speed_multiplier,
         base_cooldown |-> 400,
         base_size_multiplier |-> size_multiplier,
         active_powerups |-> [t \in PowerupTypes |-> [active |-> FALSE, end_time |-> 0]]]

\* Player.__init__ at tick now: the fields the main loop and the sprite use.
\* The multipliers are in tenths and speed, 200 * speed_multiplier, is 20
\* times those tenths; size_multiplier holds the digits of a decimal fraction and
\* size_multiplier_places how many of them stand behind the point (one at
\* construction), so that the products by 0.7 of the shrinkdown are exact.
Player(cs, now) ==
    LET life_expr == strength_map[cs["life"].promoter.strength]
        speed_expr == strength_map[cs["speed"].promoter.strength]
        small_expr == strength_map[cs["small"].promoter.strength]
        max_lives == get_lives_from_expression(life_expr)
        speed_multiplier == get_speed_multiplier(speed_expr)
        size_multiplier == get_size_multiplier(small_expr)
    IN  [cls |-> "Player", circuits |-> cs, base_size |-> 80,
         max_lives |-> max_lives, lives |-> max_lives,
         speed_multiplier |-> speed_multiplier,
         size_multiplier |-> size_multiplier,
         size_multiplier_places |-> 1,
         image |-> generate_bacteria_image(cs, 80, size_multiplier, now),
         speed |-> 20 * speed_multiplier,
         cooldown_duration |-> 400,
         invincible |-> FALSE, invincible_time |-> 0,
         base_speed |-> 20 * speed_multiplier,
         base_cooldown |-> 400,
         base_size_multiplier |-> size_multiplier,
         active_powerups |-> [t \in PowerupTypes |-> [active |-> FALSE, end_time |-> 0]]]

\* Player.take_damage without the invincibility it grants.
take_damage_unshielded(p, now) ==
    IF ~p.invincible
    THEN [p EXCEPT !.lives = @ - 1]
    ELSE p

\* The value Player.take_damage returns.
take_damage_returned(p) == ~p.invincible

\* Player.take_damage at tick now: the Player after the call.
take_damage(p, now) ==
    IF ~p.invincible
    THEN IF p.lives - 1 > 0
         THEN [p EXCEPT !.lives = @ - 1, !.invincible = TRUE, !.invincible_time = now]
         ELSE [p EXCEPT !.lives = @ - 1]
    ELSE p

\* Player.invincibility_timer at tick now
invincibility_timer(p, now) ==
    IF p.invincible /\ now - p.invincible_time >= 1000
    THEN [p EXCEPT !.invincible = FALSE]
    ELSE p

\* Player._generate_bacteria_image on a Player whose size_multiplier may have
\* been multiplied by 0.7: final_size = int(self.base_size *
\* self.size_multiplier).
regenerate_bacteria_image(p, now) ==
    LET final_size == (p.base_size * p.size_multiplier) \div (10 ^ p.size_multiplier_places)
        preview == BacteriaPreviewSpriteUpdate(BacteriaPreviewSprite(final_size),
                                               p.circuits, now)
    IN  [p EXCEPT !.image = [size |-> preview.size, surface |-> preview.surface]]

\* Player.apply_powerup at tick now
apply_powerup(p, powerup_type, now) ==
    LET timed == [p EXCEPT !.active_powerups[powerup_type] =
                               [active |-> TRUE, end_time |-> now + 5000]]
    IN  CASE powerup_type = "speedup" ->
                [timed EXCEPT !.speed = (timed.base_speed * 15) \div 10]
          [] powerup_type = "shrinkdown" ->
                regenerate_bacteria_image(
                    [timed EXCEPT !.size_multiplier = @ * 7,
                                  !.size_multiplier_places = @ + 1], now)
          [] powerup_type = "morelasers" ->
                [timed EXCEPT !.cooldown_duration = (timed.base_cooldown * 7) \div 10]
          [] powerup_type = "timefreeze" -> timed

\* apply_powerup called k times with the same type.
RECURSIVE apply_powerup_times(_, _, _, _)
apply_powerup_times(p, powerup_type, k, now) ==
    IF k = 0 THEN p
    ELSE apply_powerup_times(apply_powerup(p, powerup_type, now), powerup_type, k - 1, now)

\* The test of every branch of update_powerups.
expired(p, powerup_type, now) ==
    p.active_powerups[powerup_type].active /\ now >= p.active_powerups[powerup_type].end_time

\* Player.update_powerups at tick now
update_powerups(p, now) ==
    LET p1 == IF expired(p, "speedup", now)
              THEN [p EXCEPT !.active_powerups["speedup"].active = FALSE,
                             !.speed = p.base_speed]
              ELSE p
        p2 == IF expired(p1, "shrinkdown", now)
              THEN regenerate_bacteria_image(
                       [p1 EXCEPT !.active_powerups["shrinkdown"].active = FALSE,
                                  !.size_multiplier = p1.base_size_multiplier,
                                  !.size_multiplier_places = 1], now)
              ELSE p1
        p3 == IF expired(p2, "morelasers", now)
              THEN [p2 EXCEPT !.active_powerups["morelasers"].active = FALSE,
                              !.cooldown_duration = p2.base_cooldown]
              ELSE p2
    IN  IF expired(p3, "timefreeze", now)
        THEN [p3 EXCEPT !.active_powerups["timefreeze"].active = FALSE]
        ELSE p3

\* Button.handle_click: the mouse is over the button or not, its left button
\* is down or not; the button after the call and the value returned.
handle_click(button, mouse_over, mouse_down) ==
    IF mouse_over
    THEN IF mouse_down
         THEN [button |-> [button EXCEPT !.pressed = TRUE], returned |-> FALSE]
         ELSE IF button.pressed
         THEN [button |-> [button EXCEPT !.pressed = FALSE], returned |-> TRUE]
         ELSE [button |-> button, returned |-> FALSE]
    ELSE [button |-> button, returned |-> FALSE]

\* TextInput.__init__: the text is the sequence of its characters.
TextInput ==
    [cls |-> "TextInput", text |-> <<>>, max_length |-> 20, active |-> TRUE,
     cursor_visible |-> TRUE, cursor_timer |-> 0, cursor_interval |-> 500]

\* The characters str.isprintable() holds of, among those of KeyEvents.
Printable == {"A"}

\* TextInput.handle_event: the TextInput after the call and the value returned.
TextInputHandleEvent(input, e) ==
    IF e.type = "KEYDOWN" /\ input.active
    THEN IF e.key = "K_BACKSPACE"
         THEN [input |-> [input EXCEPT !.text = SubSeq(@, 1, Len(@) - 1)],
               returned |-> FALSE]
         ELSE IF e.key = "K_RETURN"
         THEN [input |-> input, returned |-> TRUE]
         ELSE IF Len(input.text) < input.max_length /\ e.unicode \in Printable
         THEN [input |-> [input EXCEPT !.text = Append(@, e.unicode)],
               returned |-> FALSE]
         ELSE [input |-> input, returned |-> FALSE]
    ELSE [input |-> input, returned |-> FALSE]

\* TextInput.update at tick now
TextInputUpdate(input, now) ==
    IF now - input.cursor_timer > input.cursor_interval
    THEN [input EXCEPT !.cursor_visible = ~@, !.cursor_timer = now]
    ELSE input

\* The file written by json.dump(obj, f): the text that json.load reads
\* back as obj.
json_dump(obj) == [json |-> obj]

\* The try block of the game-over save around open() and json.load(): the
\* list read, or [] when there is no file or its text is not JSON.
LoadScores(file) ==
    IF file = None \/ "json" \notin DOMAIN file THEN <<>> ELSE file.json

\* list.sort without the sort: the list as it is.
sort_not_done(scores) == scores

\* scores.sort(key=lambda x: x['score'], reverse=True): the sort is stable,
\* entries of equal score keep the order they had.
RECURSIVE sort_by_score(_)
sort_by_score(scores) ==
    IF scores = <<>> THEN <<>>
    ELSE LET sorted == sort_by_score(SubSeq(scores, 1, Len(scores) - 1))
             x == scores[Len(scores)]
             k == Cardinality({i \in 1..Len(sorted) : sorted[i].score >= x.score})
         IN  SubSeq(sorted, 1, k) \o <<x>> \o SubSeq(sorted, k + 1, Len(sorted))

\* The name "Anonymous", as the sequence of its characters.
Anonymous == <<"A", "n", "o", "n", "y", "m", "o", "u", "s">>

\* The score_entry dict of the game-over save; datetime.now().isoformat() is
\* held as the tick at which the clock is read.
ScoreEntry(text, score, cs, now) ==
    [name |-> IF text # <<>> THEN text ELSE Anonymous,
     score |-> score,
     visual_circuits |-> [shape   |-> to_dict(cs["shape"]),
                          surface |-> to_dict(cs["surface"]),
                          color   |-> to_dict(cs["color"])],
     gameplay_circuits |-> [life  |-> to_dict(cs["life"]),
                            speed |-> to_dict(cs["speed"]),
                            small |-> to_dict(cs["small"])],
     timestamp |-> now]

\* The game-over save: data.json after the entry is added.
SaveScore(file, entry) == json_dump(sort_by_score(Append(LoadScores(file), entry)))

-----------------------------------------------------------------------------
(* Inputs *)

\* The strings handed to Promoter: the three strengths and some others.
StrengthInputs == Strengths \cup {"Weak", "high", ""}

CdsClasses == {"ShapeCDS", "SurfaceCDS", "ColorCDS", "LifeCDS", "SpeedCDS", "SmallCDS"}

\* The strings handed to the constructors of ShapeCDS, SurfaceCDS and
\* ColorCDS: every trait value (each is outside the other two enumerations)
\* and some that are in none.
CdsValueInputs == Shapes \cup Surfaces \cup ColorNames \cup {"cube", "#00FF00", ""}

\* The arguments of a CDS constructor call: the gameplay classes take none.
CdsCalls ==
    {[op |-> "CDS", cls |-> c, arg |-> v] : c \in {"ShapeCDS", "SurfaceCDS", "ColorCDS"},
                                            v \in CdsValueInputs}
    \cup {[op |-> "CDS", cls |-> c, arg |-> "none"] : c \in {"LifeCDS", "SpeedCDS", "SmallCDS"}}

\* The strings handed to Circuit as circuit_type.
CircuitTypeInputs == VisualTypes \cup GameplayTypes \cup {"size", ""}

\* The records read from a file: every choice of a promoter_strength entry,
\* a circuit_type entry and at most one trait entry, each present or absent,
\* valid or not.
RawEntry(key, values) == {<<>>} \cup {key :> v : v \in values}

RawRecords ==
    {ps @@ ct @@ tr :
        ps \in RawEntry("promoter_strength", {"weak", "strong", "ultra"}),
        ct \in RawEntry("circuit_type", {"shape", "surface", "color", "life", "size"}),
        tr \in RawEntry("shape", {"rod", "cube"})
               \cup RawEntry("surface", {"spiky", "fuzzy"})
               \cup RawEntry("color_name", {"red", "#FF0000"})}

-----------------------------------------------------------------------------
(* The state after construction *)

Init ==
    /\ promoter = None
    /\ cds = None
    /\ call = [op |-> "none"]
    /\ ret = None
    /\ circuit = None
    /\ record = None
    /\ record_of = None
    /\ loaded = None
    /\ bacteria = BacteriaInit
    /\ op = "__init__"
    /\ prev_op = "none"
    /\ promoter_assignments = PromoterAssignmentsInit
    /\ selectors = SelectorsInit
    /\ state_changed = FALSE
    /\ current_state = CUSTOMISATION
    /\ ticks = 0
    /\ play_button = [cls |-> "Button", pressed |-> FALSE]
    /\ circuits = BuildCircuits(SelectorsInit, PromoterAssignmentsInit)
    /\ bacteria_preview =
           BacteriaPreviewSpriteUpdate(BacteriaPreviewSprite(230),
               BuildCircuits(SelectorsInit, PromoterAssignmentsInit), 0)
    /\ circuit_stats =
           CircuitStatsDisplayUpdate(BuildCircuits(SelectorsInit, PromoterAssignmentsInit))
    /\ glow_intensity = Intensity(0)
    /\ confirmation_message = ConfirmationMessage
    /\ player = None
    /\ game_start_time = 0
    /\ final_score = 0
    /\ text_input = None
    /\ thankyou_timer = 0
    /\ data_json = None
    /\ preview_sprite = None
    /\ gallery_sprite = None
    /\ render_log = [first |-> None, between |-> FALSE]
    /\ geometry_sprite = None
    /\ plate = [status |-> "none", sprites |-> <<>>, last_modified |-> 0, raised |-> None]
    /\ current_stage = 0
    /\ powerup_timer = 0
    /\ powerup_sprites = EmptyGroup
    /\ spawned = NoneSpawned

-----------------------------------------------------------------------------
(* Constructing the parts and a Circuit from them *)

\* promoter = Promoter(strength): the name is bound when no exception is raised.
NewPromoter(strength) ==
    /\ call' = [op |-> "Promoter", arg |-> strength]
    /\ ret' = Promoter(strength)
    /\ promoter' = IF IsError(ret') THEN promoter ELSE ret'
    /\ UNCHANGED <<cds, circuit, serialVars, bactVars, panelVars, appVars>>

\* cds = ShapeCDS(value), SurfaceCDS(value), ColorCDS(value), LifeCDS(), ...
NewCDS(c) ==
    /\ call' = c
    /\ ret' = NewCDSOf(c.cls, c.arg)
    /\ cds' = IF IsError(ret') THEN cds ELSE ret'
    /\ UNCHANGED <<promoter, circuit, serialVars, bactVars, panelVars, appVars>>

\* Circuit(promoter, cds, circuit_type) on the parts constructed last.
NewCircuit(circuit_type) ==
    /\ promoter # None
    /\ cds # None
    /\ call' = [op |-> "Circuit", promoter |-> promoter, cds |-> cds,
                circuit_type |-> circuit_type]
    /\ ret' = Circuit(promoter, cds, circuit_type)
    /\ UNCHANGED <<promoter, cds, circuit, serialVars, bactVars, panelVars, appVars>>

\* promoter.get_expression_level()
CallGetExpressionLevel ==
    /\ promoter # None
    /\ call' = [op |-> "get_expression_level", self |-> promoter]
    /\ ret' = [value |-> PromoterExpressionLevel(promoter)]
    /\ UNCHANGED <<promoter, cds, circuit, serialVars, bactVars, panelVars, appVars>>

\* build_circuit() of the gameplay panel of circuit_type.
GameplayBuild(circuit_type) ==
    /\ call' = [op |-> "build_circuit", circuit_type |-> circuit_type]
    /\ ret' = gameplay_build_circuit(promoter_assignments, circuit_type)
    /\ UNCHANGED <<promoter, cds, circuit, serialVars, bactVars, panelVars, appVars>>

\* Circuit.from_dict(data) on a record that was read.
CallFromDict(data) ==
    /\ call' = [op |-> "from_dict", data |-> data]
    /\ ret' = from_dict(data)
    /\ UNCHANGED <<promoter, cds, circuit, serialVars, bactVars, panelVars, appVars>>

NextParts ==
    \/ \E s \in StrengthInputs : NewPromoter(s)
    \/ \E c \in CdsCalls : NewCDS(c)
    \/ \E t \in CircuitTypeInputs : NewCircuit(t)
    \/ CallGetExpressionLevel
    \/ \E t \in GameplayTypes : GameplayBuild(t)
    \/ \E d \in RawRecords : CallFromDict(d)

SpecParts == Init /\ [][NextParts]_vars

-----------------------------------------------------------------------------
(* Building, serialising and loading a Circuit *)

\* build_circuit() of a visual panel whose selectors show the two options.
Build(circuit_type, promoter_index, cds_index) ==
    /\ LET c == build_circuit(circuit_type,
                              get_selected(PromoterOptions, promoter_index),
                              get_selected(CdsOptions(circuit_type), cds_index))
       IN  circuit' = IF IsError(c) THEN circuit ELSE c
    /\ UNCHANGED <<partsVars, serialVars, bactVars, panelVars, appVars>>

BuildAny ==
    \E t \in VisualTypes :
        \E pi \in 0 .. Len(PromoterOptions) - 1 :
            \E ci \in 0 .. Len(CdsOptions(t)) - 1 :
                Build(t, pi, ci)

\* record = circuit.to_dict()
ToDict ==
    /\ circuit # None
    /\ record' = to_dict(circuit)
    /\ record_of' = circuit
    /\ loaded' = None
    /\ UNCHANGED <<partsVars, circuit, bactVars, panelVars, appVars>>

\* record = a circuit record of a file that was read.
ReadRecord(data) ==
    /\ record' = data
    /\ record_of' = None
    /\ loaded' = None
    /\ UNCHANGED <<partsVars, circuit, bactVars, panelVars, appVars>>

\* Circuit.from_dict(record)
FromDict ==
    /\ record # None
    /\ loaded' = from_dict(record)
    /\ UNCHANGED <<partsVars, circuit, record, record_of, bactVars, panelVars, appVars>>

NextSerial ==
    \/ BuildAny
    \/ ToDict
    \/ \E d \in RawRecords : ReadRecord(d)
    \/ FromDict

SpecSerial == Init /\ [][NextSerial]_vars

-----------------------------------------------------------------------------
(* Expressing circuits on a Bacteria *)

\* circuit.express(bacteria)
Express ==
    /\ circuit # None
    /\ bacteria' = express(circuit, bacteria)
    /\ op' = "express"
    /\ prev_op' = op
    /\ UNCHANGED <<partsVars, circuit, serialVars, panelVars, appVars>>

\* bacteria.reset()
Reset ==
    /\ bacteria' = reset(bacteria)
    /\ op' = "reset"
    /\ prev_op' = op
    /\ UNCHANGED <<partsVars, circuit, serialVars, panelVars, appVars>>

NextBacteria ==
    \/ BuildAny
    \/ Express
    \/ Reset

SpecBacteria == Init /\ [][NextBacteria]_vars

-----------------------------------------------------------------------------
(* The customisation screen dispatching an event to its six panels *)

\* An event of the queue handled in the CUSTOMISATION state, the mouse away
\* from the Play button: the six panels see it and, when one of them reports
\* a change, the six circuits are rebuilt and the preview and the stats
\* display updated.
CustomisationEvent(e) ==
    LET shape   == CircuitPanelHandleEvent("shape", selectors.shape, e)
        surface == CircuitPanelHandleEvent("surface", selectors.surface, e)
        color   == CircuitPanelHandleEvent("color", selectors.color, e)
        life    == GameplayHandleEvent(promoter_assignments, "life", e)
        speed   == GameplayHandleEvent(life.assignments, "speed", e)
        small   == GameplayHandleEvent(speed.assignments, "small", e)
        sel     == [shape |-> shape.sel, surface |-> surface.sel, color |-> color.sel]
        changed == (shape.changed \/ surface.changed \/ color.changed
                    \/ life.changed \/ speed.changed \/ small.changed)
        rebuilt == BuildCircuits(sel, small.assignments)
    IN  /\ current_state = CUSTOMISATION
        /\ selectors' = sel
        /\ promoter_assignments' = small.assignments
        /\ state_changed' = changed
        /\ circuits' = IF changed THEN rebuilt ELSE circuits
        /\ bacteria_preview' =
               IF changed THEN BacteriaPreviewSpriteUpdate(bacteria_preview, rebuilt, ticks)
                          ELSE bacteria_preview
        /\ circuit_stats' =
               IF changed THEN CircuitStatsDisplayUpdate(rebuilt) ELSE circuit_stats
        /\ UNCHANGED <<partsVars, circuit, serialVars, bactVars, renderVars, otherVars, stageVars,
                       current_state, ticks, play_button, glow_intensity,
                       confirmation_message, gameVars>>

\* An event of the queue handled in the CUSTOMISATION state with the mouse
\* over the Play button, where no panel has a rectangle: no panel reports a
\* change, and play_button.handle_click() sees the left button down or up.
PlayButtonEvent(mouse_down) ==
    LET click == handle_click(play_button, TRUE, mouse_down)
    IN  /\ current_state = CUSTOMISATION
        /\ state_changed' = FALSE
        /\ play_button' = click.button
        /\ IF click.returned
           THEN /\ current_state' = GAME
                /\ current_stage' = 1
                /\ powerup_sprites' = EmptyGroup
                /\ powerup_timer' = 0
                /\ spawned' = NoneSpawned
                /\ player' = Player(circuits, ticks)
                /\ game_start_time' = ticks
           ELSE UNCHANGED <<current_state, player, game_start_time,
                            current_stage, powerup_sprites, powerup_timer, spawned>>
        /\ UNCHANGED <<partsVars, circuit, serialVars, bactVars, renderVars, otherVars,
                       promoter_assignments, selectors, ticks, screenVars,
                       final_score, text_input, thankyou_timer, data_json>>

NextPanel ==
    \/ \E e \in Events : CustomisationEvent(e)
    \/ \E mouse_down \in BOOLEAN : PlayButtonEvent(mouse_down)

SpecPanel == Init /\ [][NextPanel]_vars

-----------------------------------------------------------------------------
(* A game: Play, the frames of the game, the game-over screen and the save *)

\* The longest name typed.
MaxNameLen == 1

\* The readings of pygame.time.get_ticks() at which a game is observed.
GameTicks == {150, 300, 500, 2301, 2450, 2700}

\* The events of the game-over screen that TextInput tells apart; a control
\* character is held by its name.
KeyEvents ==
    {[type |-> "KEYDOWN", key |-> "K_BACKSPACE", unicode |-> "BS"],
     [type |-> "KEYDOWN", key |-> "K_RETURN", unicode |-> "CR"],
     [type |-> "KEYDOWN", key |-> "K_a", unicode |-> "A"],
     [type |-> "KEYDOWN", key |-> "K_ESCAPE", unicode |-> "ESC"],
     [type |-> "MOUSEMOTION", key |-> "none", unicode |-> ""]}

\* Time passes: get_ticks() grows to t.
Advance(t) ==
    /\ t > ticks
    /\ ticks' = t
    /\ UNCHANGED <<partsVars, circuit, serialVars, bactVars, renderVars, otherVars, stageVars, panelVars,
                   current_state, play_button, screenVars, gameVars>>

\* The elif chain on current_score and current_stage with >= for >.
next_stage_inclusive(stage, current_score) ==
    IF current_score >= 500 /\ stage = 1 THEN 2
    ELSE IF current_score >= 1200 /\ stage = 2 THEN 3
    ELSE IF current_score >= 2000 /\ stage = 3 THEN 4
    ELSE IF current_score >= 4000 /\ stage = 4 THEN 5
    ELSE stage

\* The elif chain on current_score and current_stage: the stage after it.
next_stage(stage, current_score) ==
    IF current_score > 500 /\ stage = 1 THEN 2
    ELSE IF current_score > 1200 /\ stage = 2 THEN 3
    ELSE IF current_score > 2000 /\ stage = 3 THEN 4
    ELSE IF current_score > 4000 /\ stage = 4 THEN 5
    ELSE stage

\* The loop over powerup_collisions: apply_powerup for every Powerup of the
\* group `collected`.
apply_collected(p, collected, now) ==
    LET p1 == apply_powerup_times(p, "speedup", collected["speedup"], now)
        p2 == apply_powerup_times(p1, "shrinkdown", collected["shrinkdown"], now)
        p3 == apply_powerup_times(p2, "morelasers", collected["morelasers"], now)
    IN  apply_powerup_times(p3, "timefreeze", collected["timefreeze"], now)

\* The update of a frame in the GAME state: the score is computed, the
\* powerup timer is set at score 200, the stage advances, the Player's
\* timers and powerups run, the collision of the Player with the obstacles
\* is tested (hit tells whether spritecollide found one) and the Powerups
\* the Player touches (collected, taken out of the group) are applied.  The
\* lasers touch nothing the model holds.
GameUpdate(hit, collected) ==
    LET current_score == (ticks - game_start_time) \div 100
        updated == update_powerups(invincibility_timer(player, ticks), ticks)
        damaged == IF hit THEN take_damage(updated, ticks) ELSE updated
        over == hit /\ damaged.lives <= 0
    IN  /\ current_state = GAME
        /\ \A t \in PowerupTypes : collected[t] <= powerup_sprites[t]
        /\ current_stage' = next_stage(current_stage, current_score)
        /\ powerup_timer' = IF over THEN 0
                            ELSE IF current_score = 200 /\ current_stage = 1 THEN 10000
                            ELSE powerup_timer
        /\ player' = apply_collected(damaged, collected, ticks)
        /\ powerup_sprites' = [t \in PowerupTypes |-> powerup_sprites[t] - collected[t]]
        /\ IF over
           THEN /\ final_score' = ticks \div 100 - game_start_time \div 100
                /\ current_state' = GAMEOVER
                /\ text_input' = TextInput
           ELSE UNCHANGED <<final_score, current_state, text_input>>
        /\ UNCHANGED <<partsVars, circuit, serialVars, bactVars, renderVars, otherVars,
                       panelVars, ticks, play_button, screenVars,
                       game_start_time, thankyou_timer, data_json, spawned>>

\* The frame in which the Player touches no Powerup.
GameFrame(hit) == GameUpdate(hit, EmptyGroup)

\* An event of the queue handled in the GAMEOVER state: the TextInput sees
\* it and, when it reports a submission, the score entry is saved.
GameOverEvent(e) ==
    LET handled == TextInputHandleEvent(text_input, e)
    IN  /\ current_state = GAMEOVER
        /\ text_input # None
        /\ Len(handled.input.text) <= MaxNameLen
        /\ text_input' = handled.input
        /\ IF handled.returned
           THEN /\ data_json' = SaveScore(data_json,
                                    ScoreEntry(text_input.text, final_score, circuits, ticks))
                /\ current_state' = THANKYOU
                /\ thankyou_timer' = ticks
           ELSE UNCHANGED <<data_json, current_state, thankyou_timer>>
        /\ UNCHANGED <<partsVars, circuit, serialVars, bactVars, renderVars, otherVars, stageVars, panelVars,
                       ticks, play_button, screenVars,
                       player, game_start_time, final_score>>

\* The update of a frame in the THANKYOU state with >= for >.
ThankYouUpdateAtTwoSeconds ==
    /\ current_state = THANKYOU
    /\ ticks - thankyou_timer >= 2000
    /\ current_state' = CUSTOMISATION
    /\ UNCHANGED <<partsVars, circuit, serialVars, bactVars, renderVars, otherVars, stageVars, panelVars,
                   ticks, play_button, screenVars, gameVars>>

\* The update of a frame in the THANKYOU state once the two seconds are over.
ThankYouUpdate ==
    /\ current_state = THANKYOU
    /\ ticks - thankyou_timer > 2000
    /\ current_state' = CUSTOMISATION
    /\ UNCHANGED <<partsVars, circuit, serialVars, bactVars, renderVars, otherVars, stageVars, panelVars,
                   ticks, play_button, screenVars, gameVars>>

-----------------------------------------------------------------------------
(* The effects that are polled every frame *)

\* The readings of get_ticks() at which the timed effects are polled.
TimerTicks == {500, 501, 1001, 1002, 2000, 2001}

\* The events that change a selection while the timed effects are observed.
GlowEvents == {[type |-> "MOUSEBUTTONDOWN", pos |-> ArrowRect("shape", "cds", "right")]}

\* bacteria_preview.draw(screen) of a frame rendered in the CUSTOMISATION
\* state: the glow is polled.
PreviewDraw ==
    LET polled == get_glow_intensity(bacteria_preview, ticks)
    IN  /\ current_state = CUSTOMISATION
        /\ bacteria_preview' = polled.sprite
        /\ glow_intensity' = polled.returned
        /\ UNCHANGED <<partsVars, circuit, serialVars, bactVars, renderVars, otherVars, stageVars, panelVars,
                       current_state, ticks, play_button, circuits, circuit_stats,
                       confirmation_message, gameVars>>

\* confirmation_message.show("Saved!")
ConfirmationShow ==
    /\ confirmation_message' = show(confirmation_message, "Saved!", ticks)
    /\ UNCHANGED <<partsVars, circuit, serialVars, bactVars, renderVars, otherVars, stageVars, panelVars,
                   current_state, ticks, play_button, circuits, bacteria_preview,
                   circuit_stats, glow_intensity, gameVars>>

\* confirmation_message.update()
ConfirmationUpdate ==
    /\ confirmation_message' = ConfirmationMessageUpdate(confirmation_message, ticks)
    /\ UNCHANGED <<partsVars, circuit, serialVars, bactVars, renderVars, otherVars, stageVars, panelVars,
                   current_state, ticks, play_button, circuits, bacteria_preview,
                   circuit_stats, glow_intensity, gameVars>>

\* The update of a frame in the GAMEOVER state: the cursor is polled.
GameOverUpdate ==
    /\ current_state = GAMEOVER
    /\ text_input # None
    /\ text_input' = TextInputUpdate(text_input, ticks)
    /\ UNCHANGED <<partsVars, circuit, serialVars, bactVars, renderVars, otherVars, stageVars, panelVars,
                   current_state, ticks, play_button, screenVars,
                   player, game_start_time, final_score, thankyou_timer, data_json>>

NextTimers ==
    \/ \E t \in TimerTicks : Advance(t)
    \/ \E e \in GlowEvents : CustomisationEvent(e)
    \/ PreviewDraw
    \/ ConfirmationShow
    \/ ConfirmationUpdate
    \/ \E mouse_down \in BOOLEAN : PlayButtonEvent(mouse_down)
    \/ GameFrame(TRUE)
    \/ GameOverUpdate

SpecTimers == Init /\ [][NextTimers]_vars

-----------------------------------------------------------------------------
(* The plate display, the second process of demo.py *)

\* os.path.getmtime('data.json') of a file that exists.  Every write of the
\* game-over save adds one record, so the number of records orders the
\* writes as the modification times do.
getmtime(file) == Len(file.json)

\* load_bacteria_from_json: [] when there is no file or its text is not JSON.
load_bacteria_from_json(file) ==
    IF file = None \/ "json" \notin DOMAIN file THEN <<>> ELSE file.json

\* The dict of three circuits create_platedisplay reconstructs from one
\* record: bacteria_data[key] raises KeyError for a missing key and an
\* exception of Circuit.from_dict propagates.
plate_circuits(bacteria_data) ==
    IF "shape_circuit" \notin DOMAIN bacteria_data THEN KeyError("shape_circuit")
    ELSE LET shape == from_dict(bacteria_data["shape_circuit"])
         IN  IF IsError(shape) THEN shape
             ELSE IF "surface_circuit" \notin DOMAIN bacteria_data
                  THEN KeyError("surface_circuit")
             ELSE LET surface == from_dict(bacteria_data["surface_circuit"])
                  IN  IF IsError(surface) THEN surface
                      ELSE IF "color_circuit" \notin DOMAIN bacteria_data
                           THEN KeyError("color_circuit")
                      ELSE LET color == from_dict(bacteria_data["color_circuit"])
                           IN  IF IsError(color) THEN color
                               ELSE [shape |-> shape, surface |-> surface,
                                     color |-> color]

\* The loop over the records from place idx on (places count from 1 here,
\* bacteria_id from 0 as in the code): a sprite is made of each and put on
\* the last page, a new page is opened when the last one is full and an
\* empty page has room, so every record gets a sprite; the pages are held
\* as one list.  An exception ends the loop and the process.
RECURSIVE plate_add(_, _, _)
plate_add(sprites, bacteria_data_list, idx) ==
    IF idx > Len(bacteria_data_list)
    THEN [sprites |-> sprites, raised |-> None]
    ELSE LET cs == plate_circuits(bacteria_data_list[idx])
         IN  IF IsError(cs)
             THEN [sprites |-> sprites, raised |-> cs]
             ELSE plate_add(Append(sprites, [bacteria_id |-> idx - 1, circuits |-> cs,
                                             sprite |-> SmallBacteriaSprite(cs)]),
                            bacteria_data_list, idx + 1)

\* create_platedisplay up to its main loop: the initial load.
PlateStart ==
    /\ plate.status = "none"
    /\ LET added == plate_add(<<>>, load_bacteria_from_json(data_json), 1)
       IN  plate' =
               IF IsError(added.raised)
               THEN [status |-> "crashed", sprites |-> added.sprites,
                     last_modified |-> 0, raised |-> added.raised]
               ELSE [status |-> "running", sprites |-> added.sprites,
                     last_modified |-> IF data_json # None THEN getmtime(data_json) ELSE 0,
                     raised |-> None]
    /\ UNCHANGED <<partsVars, circuit, serialVars, bactVars, panelVars,
                   current_state, ticks, play_button, screenVars, gameVars, stageVars, renderVars,
                   geometry_sprite>>

\* One pass of the main loop of create_platedisplay: the file is polled and,
\* when it is newer, the records past the number of sprites are added.
PlateFrame ==
    /\ plate.status = "running"
    /\ IF data_json # None /\ getmtime(data_json) > plate.last_modified
       THEN LET added == plate_add(plate.sprites, load_bacteria_from_json(data_json),
                                   Len(plate.sprites) + 1)
            IN  plate' =
                    [status |-> IF IsError(added.raised) THEN "crashed" ELSE "running",
                     sprites |-> added.sprites,
                     last_modified |-> getmtime(data_json),
                     raised |-> added.raised]
       ELSE plate' = plate
    /\ UNCHANGED <<partsVars, circuit, serialVars, bactVars, panelVars,
                   current_state, ticks, play_button, screenVars, gameVars, stageVars, renderVars,
                   geometry_sprite>>

\* The two processes of demo.py, interleaved.
NextPlate ==
    \/ \E t \in GameTicks : Advance(t)
    \/ \E mouse_down \in BOOLEAN : PlayButtonEvent(mouse_down)
    \/ \E hit \in BOOLEAN : GameFrame(hit)
    \/ \E e \in KeyEvents : GameOverEvent(e)
    \/ ThankYouUpdate
    \/ PlateStart
    \/ PlateFrame

SpecPlate == Init /\ [][NextPlate]_vars

-----------------------------------------------------------------------------
(* Sprites rendered with a phenotype set by hand *)

\* The sizes of the sprites rendered with a Bacteria set by hand: 161 and 230
\* are sizes of the preview of the customisation screen, 39 is the size of a
\* Player's image under the 0.7 multiplier, 100 and 180 are sizes a caller
\* of BacteriaPreviewSprite(x, y, size) gives.
GeometrySizes == {39, 100, 161, 180, 230}

\* The expression levels a Bacteria is given, in tenths.
GeometryLevels == {3, 5, 7, 10}

\* A Bacteria after update_shape and update_surface.
GeometryBacteria(shape, shape_level, surface, surface_level) ==
    update_surface(update_shape(BacteriaInit, shape, shape_level), surface, surface_level)

\* sprite = BacteriaPreviewSprite(x, y, size); its bacteria is given a shape
\* and a surface; sprite._render()
PreviewRenderPhenotype(size, shape, shape_level, surface, surface_level) ==
    /\ geometry_sprite' = preview_render(
           [BacteriaPreviewSprite(size) EXCEPT
               !.bacteria = GeometryBacteria(shape, shape_level, surface, surface_level)])
    /\ UNCHANGED <<partsVars, circuit, serialVars, bactVars, panelVars,
                   current_state, ticks, play_button, screenVars, gameVars, stageVars, renderVars,
                   plate>>

\* The same on a SmallBacteriaSprite, whose size is 70.
GalleryRenderPhenotype(shape, shape_level, surface, surface_level) ==
    /\ geometry_sprite' = small_render(
           [cls |-> "SmallBacteriaSprite", size |-> 70,
            bacteria |-> GeometryBacteria(shape, shape_level, surface, surface_level),
            surface |-> <<>>, shape_rect |-> None])
    /\ UNCHANGED <<partsVars, circuit, serialVars, bactVars, panelVars,
                   current_state, ticks, play_button, screenVars, gameVars, stageVars, renderVars,
                   plate>>

NextGeometry ==
    \/ \E size \in GeometrySizes, shape \in {"rod", "spherical"},
          shape_level \in GeometryLevels, surface \in {"smooth", "rough", "spiky"},
          surface_level \in GeometryLevels :
          PreviewRenderPhenotype(size, shape, shape_level, surface, surface_level)
    \/ \E shape \in {"rod", "spherical"}, shape_level \in GeometryLevels,
          surface \in {"smooth", "rough", "spiky"}, surface_level \in GeometryLevels :
          GalleryRenderPhenotype(shape, shape_level, surface, surface_level)

SpecGeometry == Init /\ [][NextGeometry]_vars

\* The sizes BacteriaPreviewSprite is constructed with: 230 is the preview of
\* the customisation screen and 56 the sprite of a Player's image under the
\* 0.7 size multiplier; 63 is a size whose weak rod, drawn at 0.7 of it, has
\* sides that differ by 10.
RenderSizes == {56, 63, 230}

\* The selections the rendered circuits are built from: both shapes at the
\* weak and the strong promoter, every surface, the color left as it starts.
RenderSelections ==
    {[shape   |-> [promoter |-> p, cds |-> c],
      surface |-> [promoter |-> 1, cds |-> s],
      color   |-> [promoter |-> 1, cds |-> 1]] : p \in {0, 2}, c \in {0, 1}, s \in {0, 1, 2}}

\* The selections the sprites of the gallery are built from.
GallerySelections == {sel \in RenderSelections : sel.shape.promoter = 0}

\* The width and height of the rectangles the texture pass of the gallery
\* is given: the sides differ by 5 in the first, by 4 in the second, by 6 in
\* the third, and the last is the rod of 70 pixels at the weak promoter.
GalleryRects == {<<6, 11>>, <<6, 10>>, <<12, 6>>, <<17, 33>>}

\* What a render is a render of: the phenotype and the size.
Phenotype(s) == [visual |-> get_visual_properties(s.bacteria), size |-> s.size]

\* preview = BacteriaPreviewSprite(x, y, size)
PreviewNew(size) ==
    /\ preview_sprite' = BacteriaPreviewSprite(size)
    /\ render_log' = [first |-> None, between |-> FALSE]
    /\ UNCHANGED <<partsVars, circuit, serialVars, bactVars, panelVars, otherVars,
                   current_state, ticks, play_button, screenVars, gameVars, stageVars,
                   gallery_sprite>>

\* preview.update(circuits) on the sprite made before, with the circuits of
\* a selection.
PreviewUpdate(sel) ==
    /\ preview_sprite # None
    /\ LET updated == BacteriaPreviewSpriteUpdate(
                          preview_sprite, BuildCircuits(sel, promoter_assignments), ticks)
       IN  /\ preview_sprite' = updated
           /\ render_log' =
                  IF render_log.first = None
                  THEN [first |-> updated, between |-> FALSE]
                  ELSE [render_log EXCEPT !.between =
                            @ \/ Phenotype(updated) # Phenotype(render_log.first)]
    /\ UNCHANGED <<partsVars, circuit, serialVars, bactVars, panelVars, otherVars,
                   current_state, ticks, play_button, screenVars, gameVars, stageVars,
                   gallery_sprite>>

\* SmallBacteriaSprite(x, y, circuits, bacteria_id) with the three visual
\* circuits of a selection.
GalleryNew(sel) ==
    /\ gallery_sprite' = SmallBacteriaSprite(BuildCircuits(sel, promoter_assignments))
    /\ UNCHANGED <<partsVars, circuit, serialVars, bactVars, panelVars, otherVars,
                   current_state, ticks, play_button, screenVars, gameVars, stageVars,
                   preview_sprite, render_log>>

\* _draw_surface_texture(surface['type'], surface['intensity']) on a cleared
\* gallery sprite whose recorded body rectangle is wh[1] wide and wh[2] high.
GalleryTexture(wh) ==
    /\ gallery_sprite # None
    /\ LET c == gallery_sprite.size \div 2
           rect == Rect(c - wh[1] \div 2, c - wh[2] \div 2, wh[1], wh[2])
           visual == get_visual_properties(gallery_sprite.bacteria)
       IN  gallery_sprite' = small_draw_surface_texture(
               [fill(gallery_sprite) EXCEPT !.shape_rect = rect],
               visual.surface.type, visual.surface.intensity)
    /\ UNCHANGED <<partsVars, circuit, serialVars, bactVars, panelVars, otherVars,
                   current_state, ticks, play_button, screenVars, gameVars, stageVars,
                   preview_sprite, render_log>>

NextRender ==
    \/ \E size \in RenderSizes : PreviewNew(size)
    \/ \E sel \in RenderSelections : PreviewUpdate(sel)
    \/ \E sel \in GallerySelections : GalleryNew(sel)
    \/ \E wh \in GalleryRects : GalleryTexture(wh)

SpecRender == Init /\ [][NextRender]_vars

-----------------------------------------------------------------------------
(* The stages and the powerups of a game *)

\* The most Powerups made in one game.
MaxPowerups == 2

\* The readings of get_ticks() in a game started at tick 0: the score is 200
\* at 20000 and 501 at 50100; 52000 is less than five seconds later and
\* 57000 more; the score is 1200 at 120000 and 4001 at 400100.
PowerTicks == {20000, 50100, 52000, 57000, 120000, 400100}

\* The obstacle_event of the queue handled in the GAME state: an Obstacle of
\* the stage is made unless the timefreeze is active.
ObstacleEvent ==
    /\ current_state = GAME
    /\ spawned' = [event |-> "obstacle_event",
                   made |-> IF ~player.active_powerups["timefreeze"].active
                            THEN "Obstacle" ELSE "none",
                   stage |-> current_stage,
                   timefreeze |-> player.active_powerups["timefreeze"].active,
                   powerups |-> spawned.powerups]
    /\ UNCHANGED <<partsVars, circuit, serialVars, bactVars, renderVars, otherVars,
                   panelVars, current_state, ticks, play_button, screenVars, gameVars,
                   current_stage, powerup_timer, powerup_sprites>>

\* The powerup_event of the queue handled in the GAME state, posted once
\* its timer is set: from stage 2 on a Powerup of the type choice() gives
\* joins the group.
PowerupEvent(powerup_type) ==
    /\ current_state = GAME
    /\ powerup_timer > 0
    /\ spawned.powerups < MaxPowerups
    /\ powerup_sprites' = IF current_stage >= 2
                          THEN [powerup_sprites EXCEPT ![powerup_type] = @ + 1]
                          ELSE powerup_sprites
    /\ spawned' = [event |-> "powerup_event",
                   made |-> IF current_stage >= 2 THEN powerup_type ELSE "none",
                   stage |-> current_stage,
                   timefreeze |-> player.active_powerups["timefreeze"].active,
                   powerups |-> IF current_stage >= 2 THEN spawned.powerups + 1
                                ELSE spawned.powerups]
    /\ UNCHANGED <<partsVars, circuit, serialVars, bactVars, renderVars, otherVars,
                   panelVars, current_state, ticks, play_button, screenVars, gameVars,
                   current_stage, powerup_timer>>

\* The clock read by the frames of a game: the game of this specification
\* starts at tick 0.
GameClock(t) ==
    /\ current_state = GAME
    /\ Advance(t)

NextPower ==
    \/ \E t \in PowerTicks : GameClock(t)
    \/ \E mouse_down \in BOOLEAN : PlayButtonEvent(mouse_down)
    \/ ObstacleEvent
    \/ \E powerup_type \in PowerupTypes : PowerupEvent(powerup_type)
    \/ \E hit \in BOOLEAN, collected \in [PowerupTypes -> 0..MaxPowerups] :
          GameUpdate(hit, collected)

SpecPower == Init /\ [][NextPower]_vars

-----------------------------------------------------------------------------
(* The lives of the Player *)

\* The clicks on the radio buttons of the life panel.
LifeEvents ==
    {[type |-> "MOUSEBUTTONDOWN", pos |-> ButtonRect("life", s)] : s \in Strengths}

\* The readings of get_ticks(): 1200 is less than 1000 ms after 500, 1500
\* exactly 1000 ms and 2600 more.
LifeTicks == {500, 1200, 1500, 2600}

NextLives ==
    \/ \E e \in LifeEvents : CustomisationEvent(e)
    \/ \E mouse_down \in BOOLEAN : PlayButtonEvent(mouse_down)
    \/ \E t \in LifeTicks : Advance(t)
    \/ \E hit \in BOOLEAN : GameFrame(hit)

SpecLives == Init /\ [][NextLives]_vars

-----------------------------------------------------------------------------
(* The four states of the application *)

\* The readings of get_ticks(): 2300 is exactly 2000 ms after 300 and 2301
\* is more.
CycleTicks == {300, 2300, 2301}

NextCycle ==
    \/ \E t \in CycleTicks : Advance(t)
    \/ \E e \in GlowEvents : CustomisationEvent(e)
    \/ \E mouse_down \in BOOLEAN : PlayButtonEvent(mouse_down)
    \/ \E hit \in BOOLEAN : GameFrame(hit)
    \/ \E e \in KeyEvents : GameOverEvent(e)
    \/ GameOverUpdate
    \/ ThankYouUpdate

SpecCycle == Init /\ [][NextCycle]_vars

NextGame ==
    \/ \E t \in GameTicks : Advance(t)
    \/ \E mouse_down \in BOOLEAN : PlayButtonEvent(mouse_down)
    \/ \E hit \in BOOLEAN : GameFrame(hit)
    \/ \E e \in KeyEvents : GameOverEvent(e)
    \/ ThankYouUpdate

SpecGame == Init /\ [][NextGame]_vars

-----------------------------------------------------------------------------

Next ==
    NextParts \/ NextSerial \/ NextBacteria \/ NextPanel \/ NextGame \/ NextTimers
        \/ NextRender \/ NextGeometry \/ NextPlate \/ NextPower \/ NextLives \/ NextCycle

Spec == Init /\ [][Next]_vars

-----------------------------------------------------------------------------
(* Properties *)

\* The trait value a Circuit carries: shape, surface or color_name.
TraitValueOf(c) ==
    CASE c.circuit_type = "shape"   -> c.cds.shape
      [] c.circuit_type = "surface" -> c.cds.surface
      [] c.circuit_type = "color"   -> c.cds.color_name

\* C1: the Circuit that from_dict returns for the record to_dict made of a
\* Circuit c has the promoter strength, circuit_type and trait value of c.
C1_RoundTrip ==
    (record_of # None /\ loaded # None) =>
        /\ IsA(loaded, "Circuit")
        /\ loaded.promoter.strength = record_of.promoter.strength
        /\ loaded.circuit_type = record_of.circuit_type
        /\ TraitValueOf(loaded) = TraitValueOf(record_of)

C1_Witness ==
    /\ record_of # None
    /\ IsA(loaded, "Circuit")
    /\ record_of.circuit_type = "color"
    /\ record_of.promoter.strength = "weak"
    /\ record_of.cds.color_name = "blue"
    /\ loaded.cds.color_name = "blue"

\* C2: Circuit(promoter, cds, circuit_type) raises a ValueError, and returns
\* no Circuit, whenever circuit_type differs from the category of cds.
C2_MismatchFails ==
    (call.op = "Circuit" /\ call.cds.category # call.circuit_type) =>
        /\ IsError(ret)
        /\ ret.error = "ValueError"

C2_Witness ==
    /\ call.op = "Circuit"
    /\ call.cds.cls = "SurfaceCDS"
    /\ call.circuit_type = "color"
    /\ IsError(ret)

\* C3: Circuit construction succeeds for each of the six trait categories
\* when the category of the CDS equals circuit_type, raises a ValueError for
\* a circuit_type outside the six, and build_circuit of a gameplay panel
\* returns a Circuit.
C3_SixCategories ==
    /\ (call.op = "Circuit" /\ call.circuit_type \in VisualTypes \cup GameplayTypes
            /\ call.cds.category = call.circuit_type)
        => IsA(ret, "Circuit")
    /\ (call.op = "Circuit" /\ call.circuit_type \notin VisualTypes \cup GameplayTypes)
        => (IsError(ret) /\ ret.error = "ValueError")
    /\ call.op = "build_circuit" => IsA(ret, "Circuit")

\* The expression level of a promoter strength, in tenths, as the
\* specification's table gives it.
LevelOf(strength) ==
    CASE strength = "weak" -> 3 [] strength = "medium" -> 7 [] strength = "strong" -> 10

\* The hex of a colour name, as the specification's table gives it.
HexOf(color_name) ==
    CASE color_name = "cyan"   -> "#00FFFF"
      [] color_name = "green"  -> "#00FF00"
      [] color_name = "yellow" -> "#FFFF00"
      [] color_name = "red"    -> "#FF0000"
      [] color_name = "blue"   -> "#0000FF"

\* What an express step of the current circuit has to do to the Bacteria.
ExpressEffect ==
    LET level == LevelOf(circuit.promoter.strength)
    IN  CASE circuit.circuit_type = "shape" ->
               /\ bacteria'.shape = circuit.cds.shape
               /\ bacteria'.shape_expression = level
               /\ bacteria'.surface = bacteria.surface
               /\ bacteria'.surface_expression = bacteria.surface_expression
               /\ bacteria'.color = bacteria.color
               /\ bacteria'.color_expression = bacteria.color_expression
          [] circuit.circuit_type = "surface" ->
               /\ bacteria'.surface = circuit.cds.surface
               /\ bacteria'.surface_expression = level
               /\ bacteria'.shape = bacteria.shape
               /\ bacteria'.shape_expression = bacteria.shape_expression
               /\ bacteria'.color = bacteria.color
               /\ bacteria'.color_expression = bacteria.color_expression
          [] circuit.circuit_type = "color" ->
               /\ bacteria'.color = HexOf(circuit.cds.color_name)
               /\ bacteria'.color_expression = level
               /\ bacteria'.shape = bacteria.shape
               /\ bacteria'.shape_expression = bacteria.shape_expression
               /\ bacteria'.surface = bacteria.surface
               /\ bacteria'.surface_expression = bacteria.surface_expression

\* C4: express sets the trait pair of the circuit's type to (CDS value,
\* expression level of the promoter) and leaves the other two pairs as they were.
C4_ExpressFrame == [][Express => ExpressEffect]_vars

C4_Witness ==
    /\ op = "express"
    /\ prev_op = "express"
    /\ circuit # None
    /\ circuit.circuit_type = "surface"
    /\ circuit.promoter.strength = "weak"
    /\ bacteria.surface = "spiky"
    /\ bacteria.surface_expression = 3
    /\ bacteria.shape = "spherical"
    /\ bacteria.shape_expression = 10

\* C5: after reset() the Bacteria is rod/0.7, smooth/0.7, #00FF00/1.0,
\* whatever was expressed on it before.
C5_ResetDefault ==
    op = "reset" =>
        bacteria = [shape |-> "rod", shape_expression |-> 7,
                    surface |-> "smooth", surface_expression |-> 7,
                    color |-> "#00FF00", color_expression |-> 10]

C5_Witness ==
    /\ op = "reset"
    /\ prev_op = "express"
    /\ bacteria.shape = "rod"

\* C6: get_visual_properties always reports a shape in {rod, spherical}, a
\* surface in {smooth, rough, spiky}, a hex of the colour table and three
\* intensities among 0.3, 0.7 and 1.0.
C6_VisualRange ==
    LET v == get_visual_properties(bacteria)
    IN  /\ v.shape.type \in {"rod", "spherical"}
        /\ v.surface.type \in {"smooth", "rough", "spiky"}
        /\ v.color.hex \in {"#00FFFF", "#00FF00", "#FFFF00", "#FF0000", "#0000FF"}
        /\ v.shape.intensity \in {3, 7, 10}
        /\ v.surface.intensity \in {3, 7, 10}
        /\ v.color.intensity \in {3, 7, 10}

C6_Witness ==
    LET v == get_visual_properties(bacteria)
    IN  /\ op = "express"
        /\ v.shape.type = "spherical"
        /\ v.shape.intensity = 3
        /\ v.surface.type = "rough"
        /\ v.surface.intensity = 10
        /\ v.color.hex = "#FF0000"
        /\ v.color.intensity = 3

\* C7: get_expression_level returns 0.3 for weak, 0.7 for medium and 1.0 for
\* strong, and Promoter(strength) raises for every other strength.
C7_PromoterTable ==
    /\ call.op = "get_expression_level" =>
           /\ call.self.strength = "weak" => ret.value = 3
           /\ call.self.strength = "medium" => ret.value = 7
           /\ call.self.strength = "strong" => ret.value = 10
    /\ (call.op = "Promoter" /\ call.arg \notin {"weak", "medium", "strong"}) =>
           (IsError(ret) /\ ret.error = "ValueError")

C7_Witness ==
    /\ call.op = "get_expression_level"
    /\ call.self.strength = "weak"
    /\ ret.value = 3

\* C8: the shared dict is always a bijection between the three strengths and
\* the three gameplay traits, and get_current_promoter of a panel returns the
\* strength that maps to the panel's trait, never its fallback.
C8_Bijection ==
    /\ DOMAIN promoter_assignments = {"weak", "medium", "strong"}
    /\ \A s \in DOMAIN promoter_assignments :
           promoter_assignments[s] \in {"life", "speed", "small"}
    /\ \A t \in {"life", "speed", "small"} :
           Cardinality({s \in DOMAIN promoter_assignments : promoter_assignments[s] = t}) = 1
    /\ \A t \in {"life", "speed", "small"} :
           promoter_assignments[get_current_promoter(promoter_assignments, t)] = t

C8_Witness ==
    /\ state_changed
    /\ promoter_assignments = [weak |-> "small", medium |-> "life", strong |-> "speed"]

\* A click on the button of strength s of the gameplay panel of trait t.
ClickOn(t, s) == [type |-> "MOUSEBUTTONDOWN", pos |-> ButtonRect(t, s)]

\* What a click on strength s of panel t has to do: with t holding p and u
\* holding s, t gets s and u gets p, the third entry stays and a change is
\* reported; a click on the strength t holds changes nothing.
SwapEffect(t, s) ==
    LET p == CHOOSE q \in Strengths : promoter_assignments[q] = t
        u == promoter_assignments[s]
    IN  IF p # s
        THEN /\ promoter_assignments'[s] = t
             /\ promoter_assignments'[p] = u
             /\ \A q \in Strengths \ {s, p} :
                    promoter_assignments'[q] = promoter_assignments[q]
             /\ state_changed'
             /\ selectors' = selectors
        ELSE /\ promoter_assignments' = promoter_assignments
             /\ ~state_changed'
             /\ selectors' = selectors

\* C9: a click on strength S of the panel of trait T swaps S with the
\* strength T held and reports a change; a click on the strength T already
\* holds changes nothing and reports none.
C9_SwapOnClick ==
    [][\A t \in GameplayTypes : \A s \in Strengths :
           CustomisationEvent(ClickOn(t, s)) => SwapEffect(t, s)]_vars

C9_Witness ==
    /\ state_changed
    /\ selectors = SelectorsInit
    /\ promoter_assignments = [weak |-> "speed", medium |-> "life", strong |-> "small"]

\* The trait key from_dict reads for a circuit_type, and the enumeration of
\* its values.
TraitKey(circuit_type) ==
    CASE circuit_type = "shape"   -> "shape"
      [] circuit_type = "surface" -> "surface"
      [] circuit_type = "color"   -> "color_name"

TraitEnum(circuit_type) ==
    CASE circuit_type = "shape"   -> {"rod", "spherical"}
      [] circuit_type = "surface" -> {"smooth", "rough", "spiky"}
      [] circuit_type = "color"   -> {"cyan", "green", "yellow", "red", "blue"}

\* C10: ShapeCDS, SurfaceCDS and ColorCDS raise at construction for a value
\* outside their enumeration, no CDS and no Circuit holds such a value, and
\* from_dict raises for a record whose trait entry holds one.
C10_InvalidTraitFails ==
    /\ (call.op = "CDS" /\ call.cls = "ShapeCDS" /\ call.arg \notin {"rod", "spherical"})
           => (IsError(ret) /\ ret.error = "ValueError")
    /\ (call.op = "CDS" /\ call.cls = "SurfaceCDS"
            /\ call.arg \notin {"smooth", "rough", "spiky"})
           => (IsError(ret) /\ ret.error = "ValueError")
    /\ (call.op = "CDS" /\ call.cls = "ColorCDS"
            /\ call.arg \notin {"cyan", "green", "yellow", "red", "blue"})
           => (IsError(ret) /\ ret.error = "ValueError")
    /\ (cds # None /\ cds.category \in VisualTypes)
           => cds[TraitKey(cds.category)] \in TraitEnum(cds.category)
    /\ (call.op \in {"Circuit", "from_dict"} /\ IsA(ret, "Circuit"))
           => TraitValueOf(ret) \in TraitEnum(ret.circuit_type)
    /\ (call.op = "from_dict"
            /\ "circuit_type" \in DOMAIN call.data
            /\ call.data["circuit_type"] \in VisualTypes
            /\ TraitKey(call.data["circuit_type"]) \in DOMAIN call.data
            /\ call.data[TraitKey(call.data["circuit_type"])]
                   \notin TraitEnum(call.data["circuit_type"]))
           => IsError(ret)

C10_Witness ==
    /\ call.op = "from_dict"
    /\ call.data = [promoter_strength |-> "weak", circuit_type |-> "shape", shape |-> "cube"]
    /\ IsError(ret)
    /\ ret.msg = "Invalid shape"

\* C11: from_dict raises a ValueError for a record whose circuit_type is
\* none of the six recognized types, and returns a Circuit for a record of
\* each of the six whose fields are valid.
C11_FromDictTypes ==
    (call.op = "from_dict" /\ "promoter_strength" \in DOMAIN call.data
         /\ call.data["promoter_strength"] \in {"weak", "medium", "strong"}
         /\ "circuit_type" \in DOMAIN call.data) =>
        LET t == call.data["circuit_type"]
        IN  /\ t \notin {"shape", "surface", "color", "life", "speed", "small"}
                => (IsError(ret) /\ ret.error = "ValueError")
            /\ t \in {"life", "speed", "small"} => IsA(ret, "Circuit")
            /\ (t \in {"shape", "surface", "color"}
                    /\ TraitKey(t) \in DOMAIN call.data
                    /\ call.data[TraitKey(t)] \in TraitEnum(t))
                => IsA(ret, "Circuit")

\* Whether a record lacks a key from_dict requires: promoter_strength,
\* circuit_type, or the trait key of its circuit_type.
LacksRequiredKey(data) ==
    \/ "promoter_strength" \notin DOMAIN data
    \/ "circuit_type" \notin DOMAIN data
    \/ /\ data["circuit_type"] \in {"shape", "surface", "color"}
       /\ TraitKey(data["circuit_type"]) \notin DOMAIN data

\* C12 as stated: from_dict raises the missing-key error (KeyError) for
\* every record that lacks a required key.
C12_MissingKeyError ==
    (call.op = "from_dict" /\ LacksRequiredKey(call.data)) =>
        (IsError(ret) /\ ret.error = "KeyError")

\* C12 as the code has it: from_dict raises for every record that lacks a
\* required key and returns no Circuit; the exception is the KeyError
\* exactly when the promoter_strength entry is absent or valid, and the
\* ValueError of Promoter when it is present and invalid.
C12_MissingKeyFails ==
    (call.op = "from_dict" /\ LacksRequiredKey(call.data)) =>
        /\ IsError(ret)
        /\ ret.error = "KeyError" <=>
               \/ "promoter_strength" \notin DOMAIN call.data
               \/ call.data["promoter_strength"] \in {"weak", "medium", "strong"}
        /\ ret.error # "KeyError" =>
               (ret.error = "ValueError" /\ ret.msg = "Invalid promoter strength")

C12_Witness ==
    /\ call.op = "from_dict"
    /\ call.data = [promoter_strength |-> "weak", circuit_type |-> "shape"]
    /\ ret = KeyError("shape")


\* The list of entries the file data.json holds; none when there is no file.
EntriesOf(file) == IF file = None THEN <<>> ELSE file.json

\* The number of times x occurs in the list s.
Count(s, x) == Cardinality({i \in 1..Len(s) : s[i] = x})

\* A step in which the name is submitted at game over.
Submitted == current_state = GAMEOVER /\ current_state' = THANKYOU

\* The name under which a submission is saved.
SubmittedName == IF text_input.text = <<>> THEN Anonymous ELSE text_input.text

\* C13: a name submission at game over writes to data.json a list that holds
\* every entry the file held before, as many times as it held it, and one
\* entry more, the new one with the submitted name and the final score; the
\* list written is ordered by score, highest first.
C13_SavedSorted ==
    [][Submitted =>
        LET old == EntriesOf(data_json)
            new == EntriesOf(data_json')
        IN  /\ data_json' # None
            /\ Len(new) = Len(old) + 1
            /\ \E p \in 1..Len(new) :
                  /\ new[p].name = SubmittedName
                  /\ new[p].score = final_score
                  /\ \A q \in 1..Len(new) :
                        Count(new, new[q]) =
                            Count(old, new[q]) + (IF new[q] = new[p] THEN 1 ELSE 0)
            /\ \A i \in 1..Len(old) : Count(new, old[i]) >= Count(old, old[i])
            /\ \A i, j \in 1..Len(new) : i < j => new[i].score >= new[j].score]_vars

\* Two games have been saved, the second with the higher score.
C13_Witness ==
    /\ current_state = THANKYOU
    /\ data_json # None
    /\ Len(data_json.json) = 2
    /\ data_json.json[1].score > data_json.json[2].score
    /\ data_json.json[1].timestamp > data_json.json[2].timestamp

\* C14: a record added to a data.json that exists leaves the entries the
\* file held where they were and stands after them, at the end of the list.
C14_AppendAtEnd ==
    [][(Submitted /\ data_json # None) =>
        LET old == EntriesOf(data_json)
            new == EntriesOf(data_json')
        IN  /\ Len(new) = Len(old) + 1
            /\ SubSeq(new, 1, Len(old)) = old
            /\ new[Len(new)].name = SubmittedName
            /\ new[Len(new)].score = final_score
            /\ new[Len(new)].timestamp = ticks]_vars

\* The option a selector of a visual panel stands at, counted from 0 as
\* selected_index is.
SelectedStrength(t) == PromoterOptions[selectors[t].promoter + 1]

SelectedTrait(t) == CdsOptions(t)[selectors[t].cds + 1]

\* The phenotype that expressing the selected shape, surface and color
\* circuits gives a Bacteria.
SelectedPhenotype ==
    [shape |-> SelectedTrait("shape"),
     shape_expression |-> LevelOf(SelectedStrength("shape")),
     surface |-> SelectedTrait("surface"),
     surface_expression |-> LevelOf(SelectedStrength("surface")),
     color |-> HexOf(SelectedTrait("color")),
     color_expression |-> LevelOf(SelectedStrength("color"))]

\* The six circuits are those of the panels' current selections.
CircuitsCurrent(cs) ==
    /\ \A t \in VisualTypes :
          /\ IsA(cs[t], "Circuit")
          /\ cs[t].circuit_type = t
          /\ cs[t].promoter.strength = SelectedStrength(t)
          /\ TraitValueOf(cs[t]) = SelectedTrait(t)
    /\ \A t \in GameplayTypes :
          /\ IsA(cs[t], "Circuit")
          /\ cs[t].circuit_type = t
          /\ promoter_assignments[cs[t].promoter.strength] = t

\* The body drawn first on a surface is that of the selected shape, filled
\* with the selected colour scaled by its expression level.
DrawnFromSelection(surface) ==
    /\ Len(surface) >= 1
    /\ surface[1].draw = (IF SelectedTrait("shape") = "spherical" THEN "circle" ELSE "rect")
    /\ surface[1].color =
          [i \in 1..3 |-> (hex_to_rgb(HexOf(SelectedTrait("color")))[i]
                              * LevelOf(SelectedStrength("color"))) \div 10]

ConfirmationEffect ==
    LET m == confirmation_message
        due == m.active /\ ticks - m.timer > 2000
    IN  /\ confirmation_message'.active = (m.active /\ ~due)
        /\ confirmation_message'.timer = m.timer
        /\ confirmation_message'.message = m.message
        /\ confirmation_message'.active => ticks - confirmation_message'.timer <= 2000

\* What a poll of the glow has to do.
GlowEffect ==
    LET s == bacteria_preview
        due == s.glow_active /\ ticks - s.glow_timer > 500
    IN  /\ ~s.glow_active =>
              (glow_intensity' = Intensity(0) /\ bacteria_preview' = s)
        /\ (s.glow_active /\ ~due) =>
              (bacteria_preview' = s /\ glow_intensity' = Intensity(ticks - s.glow_timer))
        /\ due =>
              /\ glow_intensity' = Intensity(0)
              /\ bacteria_preview' = [s EXCEPT !.glow_active = FALSE]
        /\ bacteria_preview'.glow_active => ticks - bacteria_preview'.glow_timer <= 500

\* What a poll of the cursor has to do.
CursorEffect ==
    LET due == ticks - text_input.cursor_timer > 500
    IN  /\ due => /\ text_input'.cursor_visible = ~text_input.cursor_visible
                  /\ text_input'.cursor_timer = ticks
        /\ ~due => text_input' = text_input
        /\ text_input'.text = text_input.text
        /\ ticks - text_input'.cursor_timer <= 500

\* C16: a poll of a timed effect changes it only when its time is over: the
\* confirmation message stays active until more than 2000 ms after show, the
\* glow stays active until more than 500 ms after trigger_glow and an
\* inactive glow returns 0 and is left as it is, the cursor toggles only
\* when more than 500 ms have passed since cursor_timer was set; after a
\* poll none of the three is due at the same tick, so a second poll at that
\* tick changes nothing.
C16_TimedEffects ==
    [][/\ ConfirmationUpdate => ConfirmationEffect
       /\ PreviewDraw => GlowEffect
       /\ GameOverUpdate => CursorEffect]_vars

\* The message shown at tick 0 and the glow triggered at tick 0 have ended,
\* and the cursor of the game-over screen has been toggled at tick 2001.
C16_Witness ==
    /\ ticks = 2001
    /\ confirmation_message.message = "Saved!"
    /\ confirmation_message.timer = 0
    /\ ~confirmation_message.active
    /\ ~bacteria_preview.glow_active
    /\ bacteria_preview.glow_timer = 0
    /\ IsA(text_input, "TextInput")
    /\ text_input.cursor_timer = 2001

\* The promoter strength the shared dict assigns to a gameplay circuit.
AssignedStrength(t) == CHOOSE s \in Strengths : promoter_assignments[s] = t

\* The lives of a promoter strength, as the specification's table gives them.
LivesOf(strength) ==
    CASE strength = "weak" -> 1 [] strength = "medium" -> 2 [] strength = "strong" -> 3

SpeedOf(strength) ==
    CASE strength = "weak" -> 7 [] strength = "medium" -> 10 [] strength = "strong" -> 13

SizeOf(strength) ==
    CASE strength = "weak" -> 13 [] strength = "medium" -> 10 [] strength = "strong" -> 7

FreshPreviewRender(s) ==
    preview_render([BacteriaPreviewSprite(s.base_size) EXCEPT
                        !.size = s.size, !.bacteria = s.bacteria])

FreshSmallRender(s) ==
    small_render([cls |-> "SmallBacteriaSprite", size |-> s.size,
                  bacteria |-> s.bacteria, surface |-> <<>>, shape_rect |-> None])

\* C19: a render depends on the phenotype and the size and on nothing left by
\* earlier renders: the sprite that was updated again with the phenotype of
\* its first update, whatever it rendered in between, holds the drawing (the
\* body and its fill color, the dots or spikes) and the body rectangle of the
\* first update, and they are those of a sprite made anew; rendering a
\* gallery sprite again, whatever its surface and rectangle hold, gives what
\* a sprite made anew gives.
C19_RenderIdempotent ==
    /\ (preview_sprite # None /\ render_log.first # None) =>
          /\ Phenotype(preview_sprite) = Phenotype(render_log.first) =>
                /\ preview_sprite.surface = render_log.first.surface
                /\ preview_sprite.shape_rect = render_log.first.shape_rect
          /\ preview_sprite.surface = FreshPreviewRender(preview_sprite).surface
          /\ preview_sprite.shape_rect = FreshPreviewRender(preview_sprite).shape_rect
    /\ gallery_sprite # None =>
          /\ small_render(gallery_sprite).surface = FreshSmallRender(gallery_sprite).surface
          /\ small_render(gallery_sprite).shape_rect =
                 FreshSmallRender(gallery_sprite).shape_rect

\* A spiky rod rendered again after a render of another phenotype.
C19_Witness ==
    /\ preview_sprite # None
    /\ render_log.first # None
    /\ render_log.between
    /\ Phenotype(preview_sprite) = Phenotype(render_log.first)
    /\ Phenotype(preview_sprite).visual.shape.type = "rod"
    /\ Phenotype(preview_sprite).visual.surface.type = "spiky"
    /\ Len(preview_sprite.surface) >= 2

\* What was drawn last on the surface of a sprite.
LastDraw(s) == s.surface[Len(s.surface)]

\* The texture pass drew dots or spikes on the sprite.
Textured(s) == s.surface # <<>> /\ "layout" \in DOMAIN LastDraw(s)

\* The difference of the sides of the recorded body rectangle.
SideDifference(s) == abs(s.shape_rect.width - s.shape_rect.height)

\* C20: the texture pass lays its dots or spikes out around a circle exactly
\* when the sides of the recorded body rectangle differ by less than 10 in
\* the preview renderer and by less than 5 in the gallery renderer; at a
\* difference of exactly 10, or 5, it lays them out along a rod.
C20_Classification ==
    /\ (/\ preview_sprite # None
        /\ render_log.first # None
        /\ Phenotype(preview_sprite).visual.surface.type # "smooth") =>
          /\ Textured(preview_sprite)
          /\ LastDraw(preview_sprite).layout = "circular"
                 <=> SideDifference(preview_sprite) < 10
          /\ SideDifference(preview_sprite) = 10 =>
                 LastDraw(preview_sprite).layout = "rod"
    /\ (/\ gallery_sprite # None
        /\ get_visual_properties(gallery_sprite.bacteria).surface.type # "smooth") =>
          /\ Textured(gallery_sprite)
          /\ LastDraw(gallery_sprite).layout = "circular"
                 <=> SideDifference(gallery_sprite) < 5
          /\ SideDifference(gallery_sprite) = 5 =>
                 LastDraw(gallery_sprite).layout = "rod"

\* Both renderers have classified a rectangle whose sides differ by exactly
\* the tolerance.
C20_Witness ==
    /\ preview_sprite # None
    /\ Textured(preview_sprite)
    /\ SideDifference(preview_sprite) = 10
    /\ LastDraw(preview_sprite).layout = "rod"
    /\ gallery_sprite # None
    /\ Textured(gallery_sprite)
    /\ SideDifference(gallery_sprite) = 5
    /\ LastDraw(gallery_sprite).layout = "rod"

\* floor(floor(0.35 * size) * (0.7 + 0.3 * intensity)) in exact arithmetic,
\* the intensity in tenths.
ExactSphereRadius(size, level) == (((35 * size) \div 100) * (70 + 3 * level)) \div 100

\* C21: a spherical body is drawn by the preview renderer as a circle at the
\* centre of the surface whose radius is
\* floor(floor(0.35 * size) * (0.7 + 0.3 * shape_intensity)), and a rough
\* surface puts floor(8 + 12 * surface_intensity) dots on the edge of that
\* circle.
C21_SphereGeometry ==
    (/\ geometry_sprite # None
     /\ geometry_sprite.cls = "BacteriaPreviewSprite"
     /\ geometry_sprite.bacteria.shape = "spherical") =>
        LET size == geometry_sprite.size
            body == geometry_sprite.surface[1]
            dots == LastDraw(geometry_sprite)
        IN  /\ body.draw = "circle"
            /\ body.center = <<size \div 2, size \div 2>>
            /\ body.radius = ExactSphereRadius(size, geometry_sprite.bacteria.shape_expression)
            /\ geometry_sprite.bacteria.surface = "rough" =>
                  /\ dots.draw = "dots"
                  /\ dots.layout = "circular"
                  /\ dots.n = (80 + 12 * geometry_sprite.bacteria.surface_expression) \div 10
                  /\ dots.center = body.center
                  /\ dots.radius = body.radius

\* The lengths of the four segments of the perimeter of a rod w wide and h
\* high, left side, top cap, right side and bottom cap, each multiplied by
\* 113 with pi taken as 355/113.
SegmentNames == <<"left", "top", "right", "bottom">>

SegmentLengths(w, h) == <<113 * (h - w), 355 * (w \div 2), 113 * (h - w), 355 * (w \div 2)>>

\* The perimeter P = 2 * (h - w) + 2 * pi * (w div 2), multiplied likewise.
Perimeter(w, h) == 226 * (h - w) + 710 * (w \div 2)

\* The sum of the first k of the four lengths.
LengthBefore(w, h, k) ==
    CASE k = 0 -> 0
      [] k = 1 -> SegmentLengths(w, h)[1]
      [] k = 2 -> SegmentLengths(w, h)[1] + SegmentLengths(w, h)[2]
      [] k = 3 -> SegmentLengths(w, h)[1] + SegmentLengths(w, h)[2] + SegmentLengths(w, h)[3]
      [] k = 4 -> Perimeter(w, h)

\* The rod markers drawn last on the sprite.
RodDrawn ==
    /\ geometry_sprite # None
    /\ Textured(geometry_sprite)
    /\ LastDraw(geometry_sprite).layout = "rod"

\* How many of the markers m are on segment k.
MarkersOn(m, k) == Cardinality({i \in 0..(m.n - 1) : m.segment[i] = SegmentNames[k]})

\* C22: marker i of the n markers of a rod stands at the distance i/n * P
\* along the perimeter and is on the segment whose interval, of the
\* consecutive intervals of lengths h - w, pi * (w div 2), h - w and
\* pi * (w div 2), holds that distance; so every marker is on exactly one
\* segment and the number of markers on a segment is within one marker of
\* n times the segment's share of the perimeter, in both renderers.
C22_PerimeterPartition ==
    RodDrawn =>
        LET m == LastDraw(geometry_sprite)
            w == m.rect.width
            h == m.rect.height
        IN  /\ m.rect = geometry_sprite.shape_rect
            /\ DOMAIN m.segment = 0..(m.n - 1)
            /\ \A i \in 0..(m.n - 1) : \A k \in 1..4 :
                  m.segment[i] = SegmentNames[k] <=>
                      /\ m.n * LengthBefore(w, h, k - 1) <= i * Perimeter(w, h)
                      /\ i * Perimeter(w, h) < m.n * LengthBefore(w, h, k)
            /\ MarkersOn(m, 1) + MarkersOn(m, 2) + MarkersOn(m, 3) + MarkersOn(m, 4) = m.n
            /\ \A k \in 1..4 :
                  /\ (MarkersOn(m, k) - 1) * Perimeter(w, h) < m.n * SegmentLengths(w, h)[k]
                  /\ m.n * SegmentLengths(w, h)[k] < (MarkersOn(m, k) + 1) * Perimeter(w, h)

\* The 16 spikes of the strong rod of the preview at size 230: 57 wide and
\* 171 high, with markers on all four segments, the first at the start of
\* the left side and the ninth, half the perimeter on, at the start of the
\* right side.
C22_Witness ==
    /\ RodDrawn
    /\ geometry_sprite.cls = "BacteriaPreviewSprite"
    /\ LastDraw(geometry_sprite).draw = "spikes"
    /\ LastDraw(geometry_sprite).n = 16
    /\ LastDraw(geometry_sprite).rect.width = 57
    /\ LastDraw(geometry_sprite).rect.height = 171
    /\ LastDraw(geometry_sprite).segment[0] = "left"
    /\ LastDraw(geometry_sprite).segment[8] = "right"
    /\ \A k \in 1..4 : MarkersOn(LastDraw(geometry_sprite), k) >= 3

\* The plate display has taken in the file as it is now.
PlateUpToDate ==
    /\ plate.status # "none"
    /\ data_json # None => plate.last_modified = getmtime(data_json)

\* C23: the plate-display process keeps running beside the customisation
\* process and, once it has taken in the file as it is, shows every record
\* of the file by exactly one sprite, built from the circuits of that
\* record: as many sprites as records, and for every record as many sprites
\* of its circuits as the file has records of them.
C23_EveryRecordOnce ==
    /\ plate.status # "crashed"
    /\ PlateUpToDate =>
          /\ Len(plate.sprites) = Len(EntriesOf(data_json))
          /\ \A i \in 1..Len(EntriesOf(data_json)) :
                LET cs == plate_circuits(EntriesOf(data_json)[i])
                IN  Cardinality({j \in 1..Len(plate.sprites) : plate.sprites[j].circuits = cs})
                    = Cardinality({j \in 1..Len(EntriesOf(data_json)) :
                                      plate_circuits(EntriesOf(data_json)[j]) = cs})

\* C24: the plate display's loader reconstructs the shape, surface and color
\* circuits of every record of data.json without an exception.
C24_SavedRecordLoads ==
    \A i \in 1..Len(EntriesOf(data_json)) :
        ~IsError(plate_circuits(EntriesOf(data_json)[i]))

\* A frame of the game in which the Player touches Powerups of the type t
\* only, that type being active and no powerup running out in the frame.
Recollected(t) ==
    /\ current_state = GAME
    /\ powerup_sprites'[t] < powerup_sprites[t]
    /\ \A u \in PowerupTypes \ {t} : powerup_sprites'[u] = powerup_sprites[u]
    /\ player.active_powerups[t].active
    /\ \A u \in PowerupTypes : ~expired(player, u, ticks)

\* The Player's speed, cooldown_duration and size_multiplier are what they
\* were and the end time of t is 5000 ms from now.
EffectKept(t) ==
    /\ player'.speed = player.speed
    /\ player'.cooldown_duration = player.cooldown_duration
    /\ player'.size_multiplier = player.size_multiplier
    /\ player'.size_multiplier_places = player.size_multiplier_places
    /\ player'.active_powerups[t] = [active |-> TRUE, end_time |-> ticks + 5000]

\* C25: collecting a powerup of a type that is already active only resets its
\* end time to now + 5000 ms: speed, cooldown_duration and size_multiplier
\* keep the values they had after the first collection, for every type.
C25_RecollectOnlyResets ==
    [][\A t \in PowerupTypes : Recollected(t) => EffectKept(t)]_vars

\* The Player of the game is a rod with a surface that is not smooth.
TexturedRodPlayer ==
    /\ player # None
    /\ player.circuits["shape"].cds.shape = "rod"
    /\ player.circuits["surface"].cds.surface # "smooth"

\* C26: a rod rendered with a non-smooth surface has its markers laid out
\* along the rod perimeter at every size the application reaches (the
\* preview, the Player's image, shrunk or not) and every promoter strength.
C26_RodLayout ==
    /\ (/\ bacteria_preview.bacteria.shape = "rod"
        /\ bacteria_preview.bacteria.surface # "smooth"
        /\ Textured(bacteria_preview)) =>
            LastDraw(bacteria_preview).layout = "rod"
    /\ TexturedRodPlayer =>
          /\ Textured(player.image)
          /\ LastDraw(player.image).layout = "rod"

\* Player.take_damage on the Player p at tick now does what C27 says.
TakeDamageLaw(p, now) ==
    IF p.invincible
    THEN /\ take_damage(p, now) = p
         /\ ~take_damage_returned(p)
    ELSE /\ take_damage(p, now).lives = p.lives - 1
         /\ take_damage_returned(p)
         /\ p.lives - 1 > 0 =>
               /\ take_damage(p, now).invincible
               /\ take_damage(p, now).invincible_time = now

\* A step of a game: the lives do not grow, they fall by one at most and only
\* when the Player is not within 1000 ms of the last damage, the damage
\* that leaves lives makes the Player invincible from now on, and the state
\* becomes GAMEOVER exactly when the lives reach 0.
LivesStep ==
    (current_state = GAME /\ player' # None) =>
        /\ player'.lives \in {player.lives, player.lives - 1}
        /\ player'.lives < player.lives =>
              /\ ~player.invincible \/ ticks - player.invincible_time >= 1000
              /\ player'.lives > 0 =>
                    /\ player'.invincible
                    /\ player'.invincible_time = ticks
        /\ (player.invincible /\ ticks - player.invincible_time < 1000) =>
              player'.lives = player.lives
        /\ current_state' = GAMEOVER <=> player'.lives = 0
        /\ current_state' \in {GAME, GAMEOVER}

\* C27: during a game the lives never increase and stay within
\* 0..max_lives; take_damage while invincible changes nothing and returns
\* False, take_damage while not invincible lowers the lives by exactly 1 and,
\* if lives remain, makes the Player invincible for 1000 ms; the game enters
\* GAMEOVER in the frame in which the lives reach 0 and not before.
C27_Lives ==
    /\ [](player # None =>
            /\ player.lives \in 0..player.max_lives
            /\ current_state = GAME => player.lives > 0
            /\ TakeDamageLaw(player, ticks)
            /\ TakeDamageLaw(invincibility_timer(player, ticks), ticks))
    /\ [][LivesStep]_vars

\* A Player with three lives has lost two, was spared by the invincibility
\* in between, and the game goes on.
C27_Witness ==
    /\ current_state = GAME
    /\ player # None
    /\ player.max_lives = 3
    /\ player.lives = 1
    /\ player.invincible
    /\ player.invincible_time = 1500
    /\ ticks = 2600

\* The step changes the application state the way the loop allows: Play
\* clicked, lives at 0, name submitted and the entry written, or more than
\* 2000 ms spent in THANKYOU.
CycleStep ==
    current_state' # current_state =>
        \/ /\ current_state = CUSTOMISATION
           /\ current_state' = GAME
           /\ handle_click(play_button, TRUE, FALSE).returned
           /\ player' = Player(circuits, ticks)
           /\ game_start_time' = ticks
        \/ /\ current_state = GAME
           /\ current_state' = GAMEOVER
           /\ player.lives > 0
           /\ player'.lives = 0
        \/ /\ current_state = GAMEOVER
           /\ current_state' = THANKYOU
           /\ TextInputHandleEvent(text_input, [type |-> "KEYDOWN", key |-> "K_RETURN", unicode |-> "CR"]).returned
           /\ data_json' = SaveScore(data_json, ScoreEntry(text_input.text, final_score, circuits, ticks))
           /\ data_json' # data_json
           /\ thankyou_timer' = ticks
        \/ /\ current_state = THANKYOU
           /\ current_state' = CUSTOMISATION
           /\ ticks - thankyou_timer > 2000

\* C28: the application state changes only along the cycle CUSTOMISATION ->
\* GAME (Play clicked) -> GAMEOVER (lives at 0) -> THANKYOU (name submitted,
\* the score entry written) -> CUSTOMISATION (more than 2000 ms in
\* THANKYOU), and the selections of the panels change only in CUSTOMISATION.
C28_StateCycle ==
    [][/\ CycleStep
       /\ (selectors' # selectors \/ promoter_assignments' # promoter_assignments) =>
             (current_state = CUSTOMISATION /\ current_state' = CUSTOMISATION)]_vars

\* The cycle was gone round once with a changed selection: a game was
\* played, its score saved, and the application is back in CUSTOMISATION.
C28_Witness ==
    /\ current_state = CUSTOMISATION
    /\ selectors # SelectorsInit
    /\ player # None
    /\ player.lives = 0
    /\ data_json # None
    /\ ticks - thankyou_timer > 2000

\* C29: the final score recorded at game over equals the current score of
\* that frame, (now - game_start_time) // 100, for every start time and every
\* game-over time.
C29_FinalScore ==
    [][(current_state = GAME /\ current_state' = GAMEOVER) =>
          final_score' = (ticks - game_start_time) \div 100]_vars

\* The score a stage is entered above.
StageThreshold(stage) ==
    CASE stage = 2 -> 500
      [] stage = 3 -> 1200
      [] stage = 4 -> 2000
      [] stage = 5 -> 4000

\* How many Powerups a group holds.
GroupSize(group) ==
    group["speedup"] + group["shrinkdown"] + group["morelasers"] + group["timefreeze"]

\* A step of the application seen from the stage: Play sets it to 1, a step
\* of a game leaves it or raises it by one, and raises it only at a score
\* above the threshold of the stage entered; a Powerup joins the group only
\* at stage 2 or later and an Obstacle is made only while the timefreeze is
\* not active.
StageStep ==
    /\ (current_state = CUSTOMISATION /\ current_state' = GAME) => current_stage' = 1
    /\ current_state = GAME =>
          /\ current_stage' \in {current_stage, current_stage + 1}
          /\ current_stage' # current_stage =>
                (ticks - game_start_time) \div 100 > StageThreshold(current_stage')
          /\ GroupSize(powerup_sprites') > GroupSize(powerup_sprites) =>
                current_stage >= 2
          /\ (spawned' # spawned /\ spawned'.made = "Obstacle") =>
                /\ ~player.active_powerups["timefreeze"].active
                /\ player.active_powerups["timefreeze"].end_time <= ticks

\* C30: within one game the stage starts at 1, never decreases and advances
\* by one at a time, each advance happening once: to 2 when the score
\* exceeds 500, to 3 above 1200, to 4 above 2000 and to 5 above 4000;
\* powerups are spawned only while the stage is at least 2, and no obstacle
\* is spawned while the timefreeze powerup is active.
C30_Stages ==
    /\ [](current_state = GAME => current_stage \in 1..5)
    /\ [](spawned.made \in PowerupTypes => spawned.stage >= 2)
    /\ [](spawned.made = "Obstacle" => ~spawned.timefreeze)
    /\ [][StageStep]_vars

\* Stage 5 was reached, a Powerup was spawned on the way, and the last
\* obstacle_event made nothing because the timefreeze was active.
C30_Witness ==
    /\ current_state = GAME
    /\ current_stage = 5
    /\ spawned.powerups >= 1
    /\ spawned.event = "obstacle_event"
    /\ spawned.made = "none"
    /\ spawned.timefreeze

====
